---------------------------- MODULE Spec2Model ----------------------------
(***************************************************************************)
(* Slic3r processing core: the step dependency state machine of the SLA    *)
(* print pipeline (SLAPrint / SLAPrintObject) and the geometry ownership   *)
(* tree (Model / ModelObject / ModelVolume / ModelInstance / ModelMaterial).*)
(*                                                                         *)
(* Four specifications share the variables of this module:                 *)
(*   SpecSteps  the generic "named step done" tracker over an arbitrary    *)
(*              static dependency table;                                   *)
(*   Spec       the SLA pipeline: apply() / process() on two threads;      *)
(*   SpecModel  the ownership tree and the IDs of its entities;            *)
(*   SpecBBox   the transformations of an object and its bounding-box cache.*)
(***************************************************************************)
EXTENDS Integers, Sequences, FiniteSets, TLC

(***************************************************************************)
(* Bounds of the model.                                                    *)
(***************************************************************************)
\* Number of steps of the synthetic engine of SpecSteps (A, B, C).
NSteps == 3
\* Object IDs a snapshot handed to apply() may hold: 1 .. MaxObjId.
MaxObjId == 2
\* Coarse phases of the long-running step (support tree generation); the stop
\* condition is polled before each of them.
NPhases == 2

\* The IDs the model may hand out.
MaxId == 5

\* The largest offset a caller moves a volume or an instance to.
MaxCoord == 2

\* The largest scaling factor a caller gives a volume.
MaxScale == 2

(***************************************************************************)
(* Program constants.                                                      *)
(***************************************************************************)
\* enum SLAPrintStep
slapsRasterize == 0
slapsValidate == 1
slapsCount == 2
\* enum SLAPrintObjectStep
slaposObjectSlice == 0
slaposSupportIslands == 1
slaposSupportPoints == 2
slaposSupportTree == 3
slaposBasePool == 4
slaposSliceSupports == 5
slaposIndexSlices == 6
slaposCount == 7

VARIABLES
    \* ---- generic step tracker (SpecSteps) ----
    deps,       \* static dependency table: step -> set of steps it depends on
    gdone,      \* step -> BOOLEAN, the "done" flags
    glast,      \* the last operation, with the flags it found
    \* ---- SLA pipeline (Spec) ----
    m_model,    \* SLAPrint's retained snapshot: the object IDs, in order
    m_objects,  \* SLAPrint::m_objects: the PrintObjects, in order
    m_pdone,    \* print step -> BOOLEAN
    stop,       \* the controller's stop condition
    pending,    \* an apply() is queued to the background thread
    bgPc,       \* background thread: "idle" | "process" | "reconcile"
    outcome,    \* how the current / last process() went
    lastApply,  \* which path the last apply() took, until process() starts
    lastChanged, \* the object IDs whose options the last apply() found changed
    \* ---- ownership tree (SpecModel) ----
    s_last_id,  \* ModelBase::s_last_id, the last ID handed out
    materials,  \* Model::materials: material key -> the material's ID
    objects,    \* Model::objects: the ModelObjects, in order
    \* ---- calls that return a value (SpecCut, SpecQuery, SpecSplit) ----
    ret,        \* the last such call: its name, its arguments, what it returned
    \* ---- process-wide state (SpecExtruder) ----
    s_auto_extruder_id, \* Model::s_auto_extruder_id
    \* ---- gizmos of the 3D canvas (SpecSlaGizmo, SpecCutGizmo) ----
    sla_gizmo,  \* the GLGizmoSlaSupports
    cut_gizmo   \* the GLGizmoCut

stepVars == <<deps, gdone, glast>>
pipeVars == <<m_model, m_objects, m_pdone, stop, pending, bgPc, outcome, lastApply, lastChanged>>
modelVars == <<s_last_id, materials, objects, ret>>
guiVars == <<sla_gizmo, cut_gizmo>>
vars == <<deps, gdone, glast,
          m_model, m_objects, m_pdone, stop, pending, bgPc, outcome, lastApply, lastChanged,
          s_last_id, materials, objects, ret, s_auto_extruder_id, sla_gizmo, cut_gizmo>>

(***************************************************************************)
(* Generic step tracker.                                                   *)
(***************************************************************************)
GSteps == 0 .. (NSteps - 1)

\* The steps declared to depend directly on s in table d.
DirectDependents(d, s) == {t \in DOMAIN d : s \in d[t]}

\* A bug variant: clears the step and its direct dependents only.
invalidate_steps_shallow(d, flags, todo) ==
    [t \in DOMAIN flags |->
        IF t \in todo \/ (\E s \in todo : t \in DirectDependents(d, s))
        THEN FALSE ELSE flags[t]]

\* invalidate_step(S): clears S's flag and recursively the flag of every step
\* declared to depend on it. todo is the set of steps still to be cleared.
RECURSIVE invalidate_steps(_, _, _)
invalidate_steps(d, flags, todo) ==
    IF todo = {} THEN flags
    ELSE LET s == CHOOSE x \in todo : TRUE
         IN  invalidate_steps(d, [flags EXCEPT ![s] = FALSE],
                              (todo \ {s}) \cup DirectDependents(d, s))

invalidate_step(d, flags, s) == invalidate_steps(d, flags, {s})

(***************************************************************************)
(* SLA pipeline: state and pure operations.                                *)
(***************************************************************************)
ObjIds == 1 .. MaxObjId
Steps == 0 .. (slaposCount - 1)
PrintSteps == 0 .. (slapsCount - 1)

\* The declared dependencies of the per-object steps: each step consumes the
\* output of its predecessor in the enumeration.
slaDeps == [s \in Steps |-> IF s = slaposObjectSlice THEN {} ELSE {s - 1}]

\* Which steps have to be performed. Implicitly: all.
m_stepmask == [s \in Steps |-> TRUE]

\* Coarse phases of a step: the work between two polls of the stop condition.
Phases(s) == IF s = slaposSupportTree THEN NPhases ELSE 1

NotRunning == -1

\* A PrintObject as constructed for ModelObject id: no step done, no result.
NewPrintObject(id) ==
    [id     |-> id,
     done   |-> [s \in Steps |-> FALSE],
     res    |-> [s \in Steps |-> 0],
     rstep  |-> NotRunning,
     rphase |-> 0]

\* SLAPrintObject::invalidate_step: the step and the steps depending on it
\* lose their flag, and with it their cached result.
po_invalidate_step(o, step) ==
    LET d == invalidate_step(slaDeps, o.done, step)
    IN  [o EXCEPT !.done = d,
                  !.res  = [s \in Steps |-> IF d[s] THEN o.res[s] ELSE 0]]

\* The option keys of an object's support configuration (tilt angle, ...)
\* decide about the support tree, not about the object's slices.
po_invalidate_state_by_config_options(o) == po_invalidate_step(o, slaposSupportTree)

\* A bug variant: the size test is inverted.
model_object_list_equal_inverted(model_old, model_new) ==
    IF Len(model_old) = Len(model_new) THEN FALSE
    ELSE \A i \in 1 .. Len(model_old) : i <= Len(model_new) /\ model_old[i] = model_new[i]

\* Same number of ModelObjects with the same IDs in the same order.
model_object_list_equal(model_old, model_new) ==
    IF Len(model_old) # Len(model_new) THEN FALSE
    ELSE \A i \in 1 .. Len(model_old) : model_old[i] = model_new[i]

\* A bug variant: the loop compares old[i] with new[i + 1].
model_object_list_extended_off_by_one(model_old, model_new) ==
    IF Len(model_old) >= Len(model_new) THEN FALSE
    ELSE \A i \in 1 .. Len(model_old) : model_old[i] = model_new[i + 1]

\* A bug variant: the size test is turned around.
model_object_list_extended_flipped(model_old, model_new) ==
    IF Len(model_old) <= Len(model_new) THEN FALSE
    ELSE \A i \in 1 .. Len(model_new) : model_old[i] = model_new[i]

\* The new model is the old one with objects added to the end of the list.
model_object_list_extended(model_old, model_new) ==
    IF Len(model_old) >= Len(model_new) THEN FALSE
    ELSE \A i \in 1 .. Len(model_old) : model_old[i] = model_new[i]

\* The path apply() takes for a snapshot.
ApplyPath(model_old, model_new) ==
    IF model_object_list_equal(model_old, model_new) THEN "equal"
    ELSE IF model_object_list_extended(model_old, model_new) THEN "extended"
    ELSE "general"

\* The PrintObject of ModelObject id among objs (there is one).
PrintObjectOf(objs, id) == objs[CHOOSE j \in 1 .. Len(objs) : objs[j].id = id]

\* The PrintObjects after apply(): kept as they are when the ID list did not
\* change; extended by fresh PrintObjects when objects were only appended;
\* otherwise rebuilt in the snapshot's order, a retained PrintObject being
\* reused for an ID that is still there (minus the steps its changed options
\* invalidate) and a fresh one made for a new ID. A PrintObject whose ID is
\* gone is dropped.
apply_objects(model_old, objs, model_new, changed) ==
    LET path == ApplyPath(model_old, model_new)
    IN  IF path = "equal" THEN objs
        ELSE IF path = "extended"
        THEN objs \o [i \in 1 .. (Len(model_new) - Len(objs)) |->
                        NewPrintObject(model_new[Len(objs) + i])]
        ELSE [i \in 1 .. Len(model_new) |->
                IF \E j \in 1 .. Len(objs) : objs[j].id = model_new[i]
                THEN LET o == PrintObjectOf(objs, model_new[i])
                     IN  IF model_new[i] \in changed
                         THEN po_invalidate_state_by_config_options(o)
                         ELSE o
                ELSE NewPrintObject(model_new[i])]

\* The print steps after apply(): the merged output is stale as soon as the
\* object list changed.
apply_print_steps(model_old, pdone, model_new) ==
    IF ApplyPath(model_old, model_new) = "equal" THEN pdone
    ELSE [pdone EXCEPT ![slapsRasterize] = FALSE]

\* A bug variant: an empty print counts as done.
RECURSIVE is_step_done_vacuous(_, _)
is_step_done_vacuous(objs, step) ==
    IF objs = <<>> THEN TRUE
    ELSE Head(objs).done[step] /\ is_step_done_vacuous(Tail(objs), step)

\* SLAPrint::is_step_done(SLAPrintObjectStep): the step is done on all
\* objects and there is at least one object.
RECURSIVE all_objects_done(_, _)
all_objects_done(objs, step) ==
    IF objs = <<>> THEN TRUE
    ELSE IF ~Head(objs).done[step] THEN FALSE
    ELSE all_objects_done(Tail(objs), step)

is_step_done(objs, step) ==
    IF objs = <<>> THEN FALSE ELSE all_objects_done(objs, step)

finished(objs) == is_step_done(objs, slaposIndexSlices)

\* The step process() computes next on an object: the first one, in the
\* declared order, that is to be performed and is not done. slaposCount: none.
RECURSIVE first_undone_from(_, _)
first_undone_from(done, s) ==
    IF s >= slaposCount THEN slaposCount
    ELSE IF m_stepmask[s] /\ ~done[s] THEN s
    ELSE first_undone_from(done, s + 1)

\* A bug variant: the walk takes the last outstanding step first.
next_step_reversed(done) ==
    IF \E s \in Steps : ~done[s]
    THEN CHOOSE s \in Steps : ~done[s] /\ \A t \in Steps : ~done[t] => t <= s
    ELSE slaposCount

next_step(done) == first_undone_from(done, 0)

\* The first print step not done. slapsCount: none.
next_print_step(pdone) ==
    IF \E p \in PrintSteps : ~pdone[p]
    THEN CHOOSE p \in PrintSteps : ~pdone[p] /\ \A q \in PrintSteps : ~pdone[q] => p <= q
    ELSE slapsCount

Running(objs) == {i \in 1 .. Len(objs) : objs[i].rstep # NotRunning}

\* Nothing is left for process() to compute.
AllComputed(objs, pdone) ==
    /\ \A i \in 1 .. Len(objs) : next_step(objs[i].done) = slaposCount
    /\ (objs # <<>> => next_print_step(pdone) = slapsCount)

\* All lists of distinct object IDs: the snapshots apply() may receive.
RECURSIVE Perms(_)
Perms(S) ==
    IF S = {} THEN {<<>>}
    ELSE UNION {{<<x>> \o p : p \in Perms(S \ {x})} : x \in S}
Snapshots == UNION {Perms(S) : S \in SUBSET ObjIds}

\* The IDs of the snapshot's objects that the retained model holds too: the
\* objects whose options can have changed.
Retained(model_old, model_new) ==
    {model_new[i] : i \in 1 .. Len(model_new)} \cap {model_old[i] : i \in 1 .. Len(model_old)}

\* GLGizmoBase::GLGizmoBase: the part of a gizmo every gizmo has.
NewGLGizmoBase == [m_state |-> "Off", m_hover_id |-> 0 - 1, m_grabbers |-> << >>]

\* GLGizmoSlaSupports::GLGizmoSlaSupports: no object, no mesh.
NewGLGizmoSlaSupports ==
    NewGLGizmoBase @@ [m_model_object |-> 0, m_V |-> << >>]

\* GLGizmoCut::GLGizmoCut
NewGLGizmoCut ==
    NewGLGizmoBase @@ [m_cut_z |-> 0, m_max_z |-> 0, m_start_z |-> 0,
                       m_keep_upper |-> TRUE, m_keep_lower |-> TRUE, m_rotate_lower |-> FALSE]

\* The gizmos after construction.
GuiIdle ==
    /\ sla_gizmo = NewGLGizmoSlaSupports
    /\ cut_gizmo = NewGLGizmoCut

\* SLAPrint after construction: no objects, nothing queued.
PipeIdle ==
    /\ m_model = <<>>
    /\ m_objects = <<>>
    /\ m_pdone = [p \in PrintSteps |-> FALSE]
    /\ stop = FALSE
    /\ pending = FALSE
    /\ bgPc = "idle"
    /\ outcome = "none"
    /\ lastApply = "none"
    /\ lastChanged = {}

\* An empty Model; no ID was handed out yet (Model.cpp:24).
NoCall == [op |-> "none"]

ModelIdle ==
    /\ s_last_id = 0
    /\ materials = <<>>
    /\ objects = <<>>
    /\ ret = NoCall

\* Every table in which a step depends only on earlier steps of the
\* enumeration (the enumeration is ordered, so the table is acyclic).
DepTables == {d \in [GSteps -> SUBSET GSteps] : \A s \in GSteps : d[s] \subseteq 0 .. (s - 1)}

NoOp == [op |-> "none", step |-> 0, before |-> [s \in GSteps |-> FALSE]]

StepsIdle ==
    /\ deps = [s \in GSteps |-> {}]
    /\ gdone = [s \in GSteps |-> FALSE]
    /\ glast = NoOp

InitSteps ==
    /\ GuiIdle
    /\ s_auto_extruder_id = 1
    /\ deps \in DepTables
    /\ gdone = [s \in GSteps |-> FALSE]
    /\ glast = NoOp
    /\ PipeIdle
    /\ ModelIdle

\* A step is computed: its declared predecessors are done.
GSetDone(s) ==
    /\ ~gdone[s]
    /\ \A t \in deps[s] : gdone[t]
    /\ gdone' = [gdone EXCEPT ![s] = TRUE]
    /\ glast' = [op |-> "set_done", step |-> s, before |-> gdone]
    /\ UNCHANGED <<guiVars, s_auto_extruder_id, deps, pipeVars, modelVars>>

GInvalidate(s) ==
    /\ gdone' = invalidate_step(deps, gdone, s)
    /\ glast' = [op |-> "invalidate", step |-> s, before |-> gdone]
    /\ UNCHANGED <<guiVars, s_auto_extruder_id, deps, pipeVars, modelVars>>

NextSteps ==
    \/ \E s \in GSteps : GSetDone(s)
    \/ \E s \in GSteps : GInvalidate(s)

SpecSteps == InitSteps /\ [][NextSteps]_vars

(***************************************************************************)
(* SLA pipeline: apply() on the edit thread, reconciliation and process()  *)
(* on the background thread.                                               *)
(***************************************************************************)
\* apply(), on the edit thread: a process() in flight is told to stop, and
\* the reconciliation of the snapshot is queued to the background thread.
ApplyCall ==
    /\ ~pending
    /\ pending' = TRUE
    /\ stop' = (bgPc = "process")
    /\ lastApply' = "none"
    /\ lastChanged' = {}
    /\ UNCHANGED <<guiVars, s_auto_extruder_id, stepVars, modelVars, m_model, m_objects, m_pdone, bgPc, outcome>>

\* The background thread takes the queued apply() once process() has returned.
ReconcileBegin ==
    /\ bgPc = "idle"
    /\ pending
    /\ bgPc' = "reconcile"
    /\ stop' = FALSE
    /\ UNCHANGED <<guiVars, s_auto_extruder_id, stepVars, modelVars, m_model, m_objects, m_pdone, pending, outcome, lastApply, lastChanged>>

\* The snapshot (its object IDs, and the IDs of the objects whose options
\* changed) is reconciled with the retained state.
ReconcileEnd(model_new, changed) ==
    /\ bgPc = "reconcile"
    /\ m_objects' = apply_objects(m_model, m_objects, model_new, changed)
    /\ m_pdone' = apply_print_steps(m_model, m_pdone, model_new)
    /\ m_model' = model_new
    /\ lastApply' = ApplyPath(m_model, model_new)
    /\ lastChanged' = changed
    /\ bgPc' = "idle"
    /\ pending' = FALSE
    /\ outcome' = "none"
    /\ UNCHANGED <<guiVars, s_auto_extruder_id, stepVars, modelVars, stop>>

\* process() is entered.
ProcessBegin ==
    /\ bgPc = "idle"
    /\ ~pending
    /\ ~AllComputed(m_objects, m_pdone)
    /\ bgPc' = "process"
    /\ outcome' = "none"
    /\ lastApply' = "none"
    /\ lastChanged' = {}
    /\ UNCHANGED <<guiVars, s_auto_extruder_id, stepVars, modelVars, m_model, m_objects, m_pdone, stop, pending>>

\* Controller::stopcondition as the struct declares it: never abort.
Controller_default_stopcondition == FALSE

\* Controller::stopcondition as process() hands it to a long-running step:
\* true when the calculation should be aborted.
Controller_stopcondition == stop

\* A worker starts the next outstanding step of object i.
StartStep(i) ==
    /\ bgPc = "process"
    /\ outcome = "none"
    /\ ~stop
    /\ m_objects[i].rstep = NotRunning
    /\ next_step(m_objects[i].done) # slaposCount
    /\ m_objects' = [m_objects EXCEPT ![i].rstep = next_step(m_objects[i].done),
                                      ![i].rphase = 0]
    /\ UNCHANGED <<guiVars, s_auto_extruder_id, stepVars, modelVars, m_model, m_pdone, stop, pending, bgPc, outcome, lastApply, lastChanged>>

\* The running step of object i polls the stop condition, finds it false and
\* works one phase (not its last), on data of its own.
StepWork(i) ==
    /\ m_objects[i].rstep # NotRunning
    /\ m_objects[i].rphase < Phases(m_objects[i].rstep) - 1
    /\ ~Controller_stopcondition
    /\ m_objects' = [m_objects EXCEPT ![i].rphase = @ + 1]
    /\ UNCHANGED <<guiVars, s_auto_extruder_id, stepVars, modelVars, m_model, m_pdone, stop, pending, bgPc, outcome, lastApply, lastChanged>>

\* A bug variant: the cancelled step leaves what it built so far in place.
StepCancel_keeps_partial(i) ==
    /\ m_objects[i].rstep # NotRunning
    /\ stop
    /\ m_objects' = [m_objects EXCEPT ![i].res[m_objects[i].rstep] = m_objects[i].rphase,
                                      ![i].rstep = NotRunning,
                                      ![i].rphase = 0]
    /\ outcome' = IF outcome = "none" THEN "cancelled" ELSE outcome
    /\ UNCHANGED <<guiVars, s_auto_extruder_id, stepVars, modelVars, m_model, m_pdone, stop, pending, bgPc, lastApply, lastChanged>>

\* The running step of object i polls the stop condition, finds it true and
\* raises the cancellation signal: what it built so far is dropped.
StepCancel(i) ==
    /\ m_objects[i].rstep # NotRunning
    /\ Controller_stopcondition
    /\ m_objects' = [m_objects EXCEPT ![i].rstep = NotRunning, ![i].rphase = 0]
    /\ outcome' = IF outcome = "none" THEN "cancelled" ELSE outcome
    /\ UNCHANGED <<guiVars, s_auto_extruder_id, stepVars, modelVars, m_model, m_pdone, stop, pending, bgPc, lastApply, lastChanged>>

\* The running step of object i fails with a genuine error.
StepFail(i) ==
    /\ m_objects[i].rstep # NotRunning
    /\ m_objects' = [m_objects EXCEPT ![i].rstep = NotRunning, ![i].rphase = 0]
    /\ outcome' = IF outcome = "none" THEN "failed" ELSE outcome
    /\ UNCHANGED <<guiVars, s_auto_extruder_id, stepVars, modelVars, m_model, m_pdone, stop, pending, bgPc, lastApply, lastChanged>>

\* The running step of object i polls the stop condition, finds it false,
\* works its last phase and completes: its result is committed and the step
\* is marked done.
StepFinish(i) ==
    /\ m_objects[i].rstep # NotRunning
    /\ m_objects[i].rphase = Phases(m_objects[i].rstep) - 1
    /\ ~Controller_stopcondition
    /\ m_objects' = [m_objects EXCEPT ![i].done[m_objects[i].rstep] = TRUE,
                                      ![i].res[m_objects[i].rstep] = Phases(m_objects[i].rstep),
                                      ![i].rstep = NotRunning,
                                      ![i].rphase = 0]
    /\ UNCHANGED <<guiVars, s_auto_extruder_id, stepVars, modelVars, m_model, m_pdone, stop, pending, bgPc, outcome, lastApply, lastChanged>>

\* All the print objects are processed: the next print step is computed.
PrintStep ==
    /\ bgPc = "process"
    /\ outcome = "none"
    /\ ~stop
    /\ m_objects # <<>>
    /\ \A i \in 1 .. Len(m_objects) : next_step(m_objects[i].done) = slaposCount
    /\ next_print_step(m_pdone) # slapsCount
    /\ m_pdone' = [m_pdone EXCEPT ![next_print_step(m_pdone)] = TRUE]
    /\ UNCHANGED <<guiVars, s_auto_extruder_id, stepVars, modelVars, m_model, m_objects, stop, pending, bgPc, outcome, lastApply, lastChanged>>

\* A bug variant: process() returns without waiting for the steps in flight.
process_may_return_early(objs, pdone, out, stopped) ==
    out # "none" \/ stopped \/ AllComputed(objs, pdone)

\* process() may return: no step is in flight, and the walk was aborted, was
\* told to stop, or has nothing left to compute.
process_may_return(objs, pdone, out, stopped) ==
    /\ Running(objs) = {}
    /\ (out # "none" \/ stopped \/ AllComputed(objs, pdone))

ProcessEnd ==
    /\ bgPc = "process"
    /\ process_may_return(m_objects, m_pdone, outcome, stop)
    /\ bgPc' = "idle"
    /\ outcome' = IF outcome # "none" THEN outcome
                  ELSE IF AllComputed(m_objects, m_pdone) THEN "completed"
                  ELSE "cancelled"
    /\ UNCHANGED <<guiVars, s_auto_extruder_id, stepVars, modelVars, m_model, m_objects, m_pdone, stop, pending, lastApply, lastChanged>>

Next ==
    \/ ApplyCall
    \/ ReconcileBegin
    \/ \E model_new \in Snapshots : \E changed \in SUBSET Retained(m_model, model_new) :
            ReconcileEnd(model_new, changed)
    \/ ProcessBegin
    \/ \E i \in 1 .. Len(m_objects) : StartStep(i)
    \/ \E i \in 1 .. Len(m_objects) : StepWork(i)
    \/ \E i \in 1 .. Len(m_objects) : StepCancel(i)
    \/ \E i \in 1 .. Len(m_objects) : StepFail(i)
    \/ \E i \in 1 .. Len(m_objects) : StepFinish(i)
    \/ PrintStep
    \/ ProcessEnd

Init == PipeIdle /\ StepsIdle /\ ModelIdle /\ GuiIdle /\ s_auto_extruder_id = 1

Spec == Init /\ [][Next]_vars

\* The background thread and its workers keep running: a step that can
\* start starts, a running step polls and works, is cancelled or completes,
\* and process() returns when it may.  Nothing obliges the edit thread to
\* call apply(), nor a step to fail.
BackgroundFairness ==
    /\ \A i \in ObjIds :
          /\ WF_vars(i <= Len(m_objects) /\ StartStep(i))
          /\ WF_vars(i <= Len(m_objects) /\ StepWork(i))
          /\ WF_vars(i <= Len(m_objects) /\ StepCancel(i))
          /\ WF_vars(i <= Len(m_objects) /\ StepFinish(i))
    /\ WF_vars(PrintStep)
    /\ WF_vars(ProcessEnd)

SpecFair == Init /\ [][Next]_vars /\ BackgroundFairness

(***************************************************************************)
(* Ownership tree: geometry along one axis, in whole units.                *)
(* A mesh is the sequence of its connected parts, each a segment <<lo,hi>>.*)
(***************************************************************************)
MatKeyOrder == <<"A", "B">>
MatKeys == {MatKeyOrder[i] : i \in 1 .. Len(MatKeyOrder)}

\* The meshes a caller hands in: one part, and two separate parts.
Meshes == { << <<0, 4>> >>, << <<0, 4>>, <<8, 12>> >> }

\* The displacements and scaling factors a caller hands in.
Shifts == {2}
Versors == {2}
InstanceScales == {1, 2}

Min2(a, b) == IF a <= b THEN a ELSE b
Max2(a, b) == IF a >= b THEN a ELSE b

\* BoundingBoxf3: a default-constructed box is not defined.
BBoxUndefined == [defined |-> FALSE, min |-> 0, max |-> 0]

bbox_merge(a, b) ==
    IF ~b.defined THEN a
    ELSE IF ~a.defined THEN b
    ELSE [defined |-> TRUE, min |-> Min2(a.min, b.min), max |-> Max2(a.max, b.max)]

bbox_translate(b, x) ==
    IF b.defined THEN [b EXCEPT !.min = @ + x, !.max = @ + x] ELSE b

\* The box around the corners of b mapped by p |-> factor * p + offset.
bbox_transformed(b, factor, offset) ==
    IF ~b.defined THEN b
    ELSE [defined |-> TRUE,
          min |-> Min2(factor * b.min, factor * b.max) + offset,
          max |-> Max2(factor * b.min, factor * b.max) + offset]

bbox_center(b) == (b.min + b.max) \div 2

mesh_translate(m, x) == [k \in 1 .. Len(m) |-> <<m[k][1] + x, m[k][2] + x>>]

RECURSIVE mesh_bounding_box_from(_, _)
mesh_bounding_box_from(m, k) ==
    IF k > Len(m) THEN BBoxUndefined
    ELSE bbox_merge([defined |-> TRUE, min |-> m[k][1], max |-> m[k][2]],
                    mesh_bounding_box_from(m, k + 1))

mesh_bounding_box(m) == mesh_bounding_box_from(m, 1)

\* TriangleMesh::split: one mesh per connected part.
mesh_split(m) == [k \in 1 .. Len(m) |-> << m[k] >>]

\* ModelBase::generate_new_id as the n-th ID handed out from now on.
generate_new_id(n) == s_last_id + n

NewModelObject(id) ==
    [id |-> id, name |-> "", config |-> "", volumes |-> <<>>, instances |-> <<>>,
     m_bounding_box_valid |-> FALSE, m_bounding_box |-> BBoxUndefined]

NewModelVolume(id, mesh) ==
    [id |-> id, type |-> "MODEL_PART", mesh |-> mesh, offset |-> 0, scaling_factor |-> 1, mirror |-> 1,
     material_id |-> ""]

\* ModelInstance: offset is the translation along the axis and offset_xy the
\* translation across it; rotation_z is the angle about the axis (degrees),
\* rotation_xy the angle about a line across it (0 or 180, which turns the
\* axis over); scaling_factor is uniform and mirror acts along the axis.
NewModelInstance(id) ==
    [id |-> id, offset |-> 0, offset_xy |-> 0, rotation_z |-> 0, rotation_xy |-> 0,
     scaling_factor |-> 1, mirror |-> 1]

\* The instance's matrix without its translation, along the axis.
instance_factor(inst) ==
    inst.scaling_factor * inst.mirror * (IF inst.rotation_xy = 180 THEN 0 - 1 ELSE 1)

is_model_part(v) == v.type = "MODEL_PART"

ModelPartsOf(o) == SelectSeq(o.volumes, is_model_part)

\* A bug variant: the volume's offset is left out.
volume_bounding_box_without_offset(v) ==
    bbox_transformed(mesh_bounding_box(v.mesh), v.scaling_factor * v.mirror, 0)

\* The box of a volume's mesh under the volume's transformation.
volume_bounding_box(v) ==
    bbox_transformed(mesh_bounding_box(v.mesh), v.scaling_factor * v.mirror, v.offset)

transform_bounding_box(inst, bbox, dont_translate) ==
    bbox_transformed(bbox, instance_factor(inst), IF dont_translate THEN 0 ELSE inst.offset)

RECURSIVE raw_bbox_from(_, _)
raw_bbox_from(vs, k) ==
    IF k > Len(vs) THEN BBoxUndefined
    ELSE bbox_merge(IF is_model_part(vs[k]) THEN volume_bounding_box(vs[k]) ELSE BBoxUndefined,
                    raw_bbox_from(vs, k + 1))

RECURSIVE instances_bbox_from(_, _, _)
instances_bbox_from(is, raw, k) ==
    IF k > Len(is) THEN BBoxUndefined
    ELSE bbox_merge(transform_bounding_box(is[k], raw, FALSE), instances_bbox_from(is, raw, k + 1))

\* What ModelObject::bounding_box() computes when the cache is not valid.
compute_bounding_box(o) == instances_bbox_from(o.instances, raw_bbox_from(o.volumes, 1), 1)

\* A bug variant: the box is computed and returned but the cache is left as
\* it was.
bounding_box_not_stored(o) == [object |-> o, box |-> compute_bounding_box(o)]

\* ModelObject::bounding_box: the object after the call and the box returned.
bounding_box(o) ==
    IF ~o.m_bounding_box_valid
    THEN LET bb == compute_bounding_box(o)
         IN  [object |-> [o EXCEPT !.m_bounding_box = bb, !.m_bounding_box_valid = TRUE],
              box |-> bb]
    ELSE [object |-> o, box |-> o.m_bounding_box]

invalidate_bounding_box(o) ==
    [o EXCEPT !.m_bounding_box_valid = FALSE, !.m_bounding_box = BBoxUndefined]

\* ModelVolume::center_geometry: the mesh is moved to have the centre of its
\* box at the origin and the volume's offset takes the difference.
center_geometry(v) ==
    LET shift == 0 - bbox_center(mesh_bounding_box(v.mesh))
    IN  [v EXCEPT !.mesh = mesh_translate(v.mesh, shift), !.offset = @ - shift]

RemoveAt(seq, idx) == [k \in 1 .. (Len(seq) - 1) |-> IF k < idx THEN seq[k] ELSE seq[k + 1]]

translate_volumes(vs, x) == [k \in 1 .. Len(vs) |-> [vs[k] EXCEPT !.offset = @ + x]]

\* ModelObject::translate: every volume is moved, and a valid cached box is
\* moved by the same vector instead of being invalidated.
translate(o, x) ==
    [o EXCEPT !.volumes = translate_volumes(o.volumes, x),
              !.m_bounding_box = IF o.m_bounding_box_valid THEN bbox_translate(@, x) ELSE @]

\* The shift ModelObject::center_around_origin applies: from the centre of
\* the model parts' mesh boxes to the origin.
RECURSIVE parts_mesh_bbox_from(_, _)
parts_mesh_bbox_from(vs, k) ==
    IF k > Len(vs) THEN BBoxUndefined
    ELSE bbox_merge(IF is_model_part(vs[k]) THEN mesh_bounding_box(vs[k].mesh) ELSE BBoxUndefined,
                    parts_mesh_bbox_from(vs, k + 1))

center_around_origin(o) == translate(o, 0 - bbox_center(parts_mesh_bbox_from(o.volumes, 1)))

\* The IDs check_model_ids_validity visits, in its order.
ObjectIds(o) ==
    <<o.id>> \o [k \in 1 .. Len(o.volumes) |-> o.volumes[k].id]
             \o [k \in 1 .. Len(o.instances) |-> o.instances[k].id]

RECURSIVE ObjectsIds(_, _)
ObjectsIds(objs, k) == IF k > Len(objs) THEN <<>> ELSE ObjectIds(objs[k]) \o ObjectsIds(objs, k + 1)

MaterialIds ==
    LET keys == SelectSeq(MatKeyOrder, LAMBDA key : key \in DOMAIN materials)
    IN  [k \in 1 .. Len(keys) |-> materials[keys[k]]]

ModelIds == ObjectsIds(objects, 1) \o MaterialIds

\* check_model_ids_validity: every ID is positive and was not seen before.
check_model_ids_validity(ids) ==
    \A k \in 1 .. Len(ids) : ids[k] > 0 /\ \A j \in 1 .. (k - 1) : ids[j] # ids[k]

RECURSIVE AllVolumes(_, _)
AllVolumes(objs, k) == IF k > Len(objs) THEN <<>> ELSE objs[k].volumes \o AllVolumes(objs, k + 1)

(***************************************************************************)
(* Ownership tree: the operations of Model, ModelObject and ModelVolume.   *)
(***************************************************************************)
ObjIdx == 1 .. Len(objects)

\* ModelObject::assign_new_unique_ids_recursive: the object, then its
\* volumes, then its instances.
assign_new_unique_ids_recursive(o) ==
    [o EXCEPT !.id = generate_new_id(1),
              !.volumes = [k \in 1 .. Len(o.volumes) |->
                              [o.volumes[k] EXCEPT !.id = generate_new_id(1 + k)]],
              !.instances = [k \in 1 .. Len(o.instances) |->
                              [o.instances[k] EXCEPT !.id = generate_new_id(1 + Len(o.volumes) + k)]]]

Model_add_object ==
    /\ s_last_id + 1 <= MaxId
    /\ objects' = Append(objects, NewModelObject(generate_new_id(1)))
    /\ s_last_id' = s_last_id + 1
    /\ UNCHANGED <<guiVars, s_auto_extruder_id, stepVars, pipeVars, ret, materials>>

\* Model::add_object(const ModelObject &other): a clone under new IDs.
Model_add_object_clone(idx) ==
    LET other == objects[idx]
        n == 1 + Len(other.volumes) + Len(other.instances)
    IN  /\ s_last_id + n <= MaxId
        /\ objects' = Append(objects, assign_new_unique_ids_recursive(other))
        /\ s_last_id' = s_last_id + n
        /\ UNCHANGED <<guiVars, s_auto_extruder_id, stepVars, pipeVars, ret, materials>>

Model_delete_object(idx) ==
    /\ objects' = RemoveAt(objects, idx)
    /\ UNCHANGED <<guiVars, s_auto_extruder_id, stepVars, pipeVars, ret, materials, s_last_id>>

\* Model::add_material(key): a new material unless the key has one.
Model_add_material(key) ==
    /\ key \notin DOMAIN materials
    /\ s_last_id + 1 <= MaxId
    /\ materials' = [k \in DOMAIN materials \cup {key} |->
                        IF k = key THEN generate_new_id(1) ELSE materials[k]]
    /\ s_last_id' = s_last_id + 1
    /\ UNCHANGED <<guiVars, s_auto_extruder_id, stepVars, pipeVars, ret, objects>>

\* Model::add_material(key, other): the material under the key is deleted
\* and replaced by a copy of other, made by the copy constructor, which
\* copies the ID.  The callers taken here pass a material kept under another
\* key (the material under the key itself would be read after its deletion).
Model_add_material_copy(key, other_key) ==
    /\ other_key \in DOMAIN materials
    /\ key # other_key
    /\ materials' = [k \in DOMAIN materials \cup {key} |->
                        IF k = key THEN materials[other_key] ELSE materials[k]]
    /\ UNCHANGED <<guiVars, s_auto_extruder_id, stepVars, pipeVars, ret, objects, s_last_id>>

Model_delete_material(key) ==
    /\ key \in DOMAIN materials
    /\ materials' = [k \in DOMAIN materials \ {key} |-> materials[k]]
    /\ UNCHANGED <<guiVars, s_auto_extruder_id, stepVars, pipeVars, ret, objects, s_last_id>>

ModelObject_add_volume(idx, mesh) ==
    LET o == objects[idx]
    IN  /\ s_last_id + 1 <= MaxId
        /\ objects' = [objects EXCEPT ![idx] = invalidate_bounding_box(
                          [o EXCEPT !.volumes = Append(@, NewModelVolume(generate_new_id(1), mesh))])]
        /\ s_last_id' = s_last_id + 1
        /\ UNCHANGED <<guiVars, s_auto_extruder_id, stepVars, pipeVars, ret, materials>>

\* ModelObject::add_volume(const ModelVolume &other): a copy under a new ID.
ModelObject_add_volume_copy(idx, oidx, vidx) ==
    LET o == objects[idx]
        other == objects[oidx].volumes[vidx]
    IN  /\ s_last_id + 1 <= MaxId
        /\ objects' = [objects EXCEPT ![idx] = invalidate_bounding_box(
                          [o EXCEPT !.volumes = Append(@, [other EXCEPT !.id = generate_new_id(1)])])]
        /\ s_last_id' = s_last_id + 1
        /\ UNCHANGED <<guiVars, s_auto_extruder_id, stepVars, pipeVars, ret, materials>>

\* ModelObject::delete_volume: when one volume is left it is centred, the
\* instances take its offset, and it gets a new ID.
ModelObject_delete_volume(idx, vidx) ==
    LET o == objects[idx]
        vs == RemoveAt(o.volumes, vidx)
        v == center_geometry(vs[1])
        vol_offset == v.offset
    IN  IF Len(vs) = 1
        THEN /\ s_last_id + 1 <= MaxId
             /\ objects' = [objects EXCEPT ![idx] = invalidate_bounding_box(
                   [o EXCEPT !.volumes = << [v EXCEPT !.offset = 0, !.id = generate_new_id(1)] >>,
                             !.instances = [k \in 1 .. Len(o.instances) |->
                                 [o.instances[k] EXCEPT !.offset =
                                     @ + instance_factor(o.instances[k]) * vol_offset]]])]
             /\ s_last_id' = s_last_id + 1
             /\ UNCHANGED <<guiVars, s_auto_extruder_id, stepVars, pipeVars, ret, materials>>
        ELSE /\ objects' = [objects EXCEPT ![idx] =
                                invalidate_bounding_box([o EXCEPT !.volumes = vs])]
             /\ UNCHANGED <<guiVars, s_auto_extruder_id, stepVars, pipeVars, ret, materials, s_last_id>>

\* ModelObject::add_instance(offset, scaling_factor, rotation).
ModelObject_add_instance(idx, offset, scaling_factor) ==
    LET o == objects[idx]
        i == [NewModelInstance(generate_new_id(1)) EXCEPT
                 !.offset = offset, !.scaling_factor = scaling_factor]
    IN  /\ s_last_id + 1 <= MaxId
        /\ objects' = [objects EXCEPT ![idx] =
                          invalidate_bounding_box([o EXCEPT !.instances = Append(@, i)])]
        /\ s_last_id' = s_last_id + 1
        /\ UNCHANGED <<guiVars, s_auto_extruder_id, stepVars, pipeVars, ret, materials>>

\* ModelObject::add_instance(const ModelInstance &other): a copy under a new ID.
ModelObject_add_instance_copy(idx, iidx) ==
    LET o == objects[idx]
    IN  /\ s_last_id + 1 <= MaxId
        /\ objects' = [objects EXCEPT ![idx] = invalidate_bounding_box(
                          [o EXCEPT !.instances = Append(@, [o.instances[iidx] EXCEPT !.id = generate_new_id(1)])])]
        /\ s_last_id' = s_last_id + 1
        /\ UNCHANGED <<guiVars, s_auto_extruder_id, stepVars, pipeVars, ret, materials>>

ModelObject_delete_instance(idx, iidx) ==
    /\ objects' = [objects EXCEPT ![idx] = invalidate_bounding_box(
                      [objects[idx] EXCEPT !.instances = RemoveAt(@, iidx)])]
    /\ UNCHANGED <<guiVars, s_auto_extruder_id, stepVars, pipeVars, ret, materials, s_last_id>>

\* ModelObject::bounding_box: the cache is filled when it is not valid and
\* the cached box is what the caller gets.
ModelObject_bounding_box(idx) ==
    /\ objects' = [objects EXCEPT ![idx] = bounding_box(objects[idx]).object]
    /\ UNCHANGED <<guiVars, s_auto_extruder_id, stepVars, pipeVars, ret, materials, s_last_id>>

ModelObject_translate(idx, x) ==
    /\ objects[idx].volumes # <<>>
    /\ \A k \in 1 .. Len(objects[idx].volumes) : objects[idx].volumes[k].offset + x <= MaxCoord
    /\ objects' = [objects EXCEPT ![idx] = translate(objects[idx], x)]
    /\ UNCHANGED <<guiVars, s_auto_extruder_id, stepVars, pipeVars, ret, materials, s_last_id>>

ModelObject_translate_instance(idx, iidx, x) ==
    /\ objects[idx].instances[iidx].offset + x <= MaxCoord
    /\ objects' = [objects EXCEPT ![idx] = invalidate_bounding_box(
                      [objects[idx] EXCEPT !.instances[iidx].offset = @ + x])]
    /\ UNCHANGED <<guiVars, s_auto_extruder_id, stepVars, pipeVars, ret, materials, s_last_id>>

ModelObject_scale(idx, versor) ==
    LET o == objects[idx]
    IN  /\ o.volumes # <<>>
        /\ \A k \in 1 .. Len(o.volumes) : o.volumes[k].scaling_factor * versor <= MaxScale
        /\ objects' = [objects EXCEPT ![idx] = invalidate_bounding_box(
                          [o EXCEPT !.volumes = [k \in 1 .. Len(o.volumes) |->
                              [o.volumes[k] EXCEPT !.scaling_factor = @ * versor]]])]
        /\ UNCHANGED <<guiVars, s_auto_extruder_id, stepVars, pipeVars, ret, materials, s_last_id>>

ModelObject_mirror(idx) ==
    LET o == objects[idx]
    IN  /\ o.volumes # <<>>
        /\ objects' = [objects EXCEPT ![idx] = invalidate_bounding_box(
                          [o EXCEPT !.volumes = [k \in 1 .. Len(o.volumes) |->
                              [o.volumes[k] EXCEPT !.mirror = 0 - @]]])]
        /\ UNCHANGED <<guiVars, s_auto_extruder_id, stepVars, pipeVars, ret, materials, s_last_id>>

ModelObject_center_around_origin(idx) ==
    /\ \E k \in 1 .. Len(objects[idx].volumes) : is_model_part(objects[idx].volumes[k])
    /\ objects' = [objects EXCEPT ![idx] = center_around_origin(objects[idx])]
    /\ \A k \in 1 .. Len(objects[idx].volumes) : objects'[idx].volumes[k].offset >= 0 - MaxCoord
    /\ UNCHANGED <<guiVars, s_auto_extruder_id, stepVars, pipeVars, ret, materials, s_last_id>>

\* A bug variant: the new volume's geometry is left where it was.
center_geometry_skipped(v) == v

\* What ModelObject::split does to the copy of the volume it gives to a new
\* object.
split_center_geometry(v) == center_geometry(v)

\* ModelObject::split.  With more than one volume the result list gets the
\* object itself and nothing is added.  With one volume there is one new
\* object per connected part of the mesh, added to the model and to the
\* result list; each takes the name, the config, copies of the instances
\* and a centred copy of the volume, and the object itself stays.  With no
\* volume the call reads the front of an empty list: it may end the program
\* or go on with whatever it read, here a mesh without parts.
ModelObject_split(idx) ==
    LET o == objects[idx]
        volume == o.volumes[1]
        meshptrs == mesh_split(volume.mesh)
        ni == Len(o.instances)
        per == ni + 2
        new_object(p) ==
            LET n0 == (p - 1) * per
                new_vol == split_center_geometry([volume EXCEPT !.id = generate_new_id(n0 + ni + 2),
                                                                !.mesh = meshptrs[p]])
            IN  [NewModelObject(generate_new_id(n0 + 1)) EXCEPT
                    !.name = o.name,
                    !.config = o.config,
                    !.volumes = << [new_vol EXCEPT !.offset = 0] >>,
                    !.instances = [k \in 1 .. ni |->
                        [o.instances[k] EXCEPT
                            !.id = generate_new_id(n0 + 1 + k),
                            !.offset = @ + instance_factor(o.instances[k]) * new_vol.offset]]]
    IN  IF Len(o.volumes) > 1
        THEN /\ ret' = [op |-> "split", outcome |-> "returned", new_objects |-> << o.id >>]
             /\ UNCHANGED <<guiVars, s_auto_extruder_id, stepVars, pipeVars, objects, materials, s_last_id>>
        ELSE IF Len(o.volumes) = 0
        THEN /\ \E how \in {"returned", "crashed"} :
                   ret' = [op |-> "split", outcome |-> how, new_objects |-> <<>>]
             /\ UNCHANGED <<guiVars, s_auto_extruder_id, stepVars, pipeVars, objects, materials, s_last_id>>
        ELSE /\ s_last_id <= MaxId
             /\ objects' = objects \o [p \in 1 .. Len(meshptrs) |-> new_object(p)]
             /\ s_last_id' = s_last_id + Len(meshptrs) * per
             /\ ret' = [op |-> "split", outcome |-> "returned",
                        new_objects |-> [p \in 1 .. Len(meshptrs) |-> generate_new_id((p - 1) * per + 1)]]
             /\ UNCHANGED <<guiVars, s_auto_extruder_id, stepVars, pipeVars, materials>>

\* ModelVolume::split: the volume keeps the first connected part under a
\* new ID, the other parts become new volumes right after it; each is
\* centred and moved back by the volume's offset.
ModelVolume_split(idx, vidx) ==
    LET o == objects[idx]
        this == o.volumes[vidx]
        meshptrs == mesh_split(this.mesh)
        n == Len(meshptrs)
        piece(k) ==
            LET c == center_geometry([this EXCEPT !.id = generate_new_id(k),
                                                  !.mesh = meshptrs[k],
                                                  !.offset = 0])
            IN  [c EXCEPT !.offset = @ + this.offset]
    IN  /\ n > 1
        /\ s_last_id + n <= MaxId
        /\ objects' = [objects EXCEPT ![idx].volumes =
                          SubSeq(@, 1, vidx - 1) \o [k \in 1 .. n |-> piece(k)]
                              \o SubSeq(@, vidx + 1, Len(@))]
        /\ s_last_id' = s_last_id + n
        /\ UNCHANGED <<guiVars, s_auto_extruder_id, stepVars, pipeVars, ret, materials>>

\* Model::convert_multipart_object: one new object takes copies of every
\* volume of every object and of the first object's instances.
Model_convert_multipart_object ==
    LET vols == AllVolumes(objects, 1)
        insts == objects[1].instances
        n == 1 + Len(vols) + Len(insts)
        object == [NewModelObject(generate_new_id(1)) EXCEPT
                      !.volumes = [k \in 1 .. Len(vols) |->
                          [vols[k] EXCEPT !.id = generate_new_id(1 + k)]],
                      !.instances = [k \in 1 .. Len(insts) |->
                          [insts[k] EXCEPT !.id = generate_new_id(1 + Len(vols) + k)]]]
    IN  /\ objects # <<>>
        /\ s_last_id + n <= MaxId
        /\ objects' = << object >>
        /\ s_last_id' = s_last_id + n
        /\ UNCHANGED <<guiVars, s_auto_extruder_id, stepVars, pipeVars, ret, materials>>

NextModel ==
    \/ Model_add_object
    \/ \E idx \in ObjIdx : Model_add_object_clone(idx)
    \/ \E idx \in ObjIdx : Model_delete_object(idx)
    \/ \E key \in MatKeys : Model_add_material(key)
    \/ \E key \in MatKeys, other_key \in MatKeys : Model_add_material_copy(key, other_key)
    \/ \E key \in MatKeys : Model_delete_material(key)
    \/ \E idx \in ObjIdx, mesh \in Meshes : ModelObject_add_volume(idx, mesh)
    \/ \E idx \in ObjIdx, oidx \in ObjIdx :
          \E vidx \in 1 .. Len(objects[oidx].volumes) : ModelObject_add_volume_copy(idx, oidx, vidx)
    \/ \E idx \in ObjIdx :
          \E vidx \in 1 .. Len(objects[idx].volumes) : ModelObject_delete_volume(idx, vidx)
    \/ \E idx \in ObjIdx, scaling_factor \in InstanceScales :
          ModelObject_add_instance(idx, 0, scaling_factor)
    \/ \E idx \in ObjIdx :
          \E iidx \in 1 .. Len(objects[idx].instances) : ModelObject_add_instance_copy(idx, iidx)
    \/ \E idx \in ObjIdx :
          \E iidx \in 1 .. Len(objects[idx].instances) : ModelObject_delete_instance(idx, iidx)
    \/ \E idx \in ObjIdx : ModelObject_split(idx)
    \/ \E idx \in ObjIdx :
          \E vidx \in 1 .. Len(objects[idx].volumes) : ModelVolume_split(idx, vidx)
    \/ Model_convert_multipart_object

InitModel == PipeIdle /\ StepsIdle /\ ModelIdle /\ GuiIdle /\ s_auto_extruder_id = 1

\* The ownership tree under its add / delete / split / convert operations.
SpecModel == InitModel /\ [][NextModel]_vars

NextBBox ==
    \/ \E idx \in ObjIdx, mesh \in Meshes : ModelObject_add_volume(idx, mesh)
    \/ \E idx \in ObjIdx :
          \E vidx \in 1 .. Len(objects[idx].volumes) : ModelObject_delete_volume(idx, vidx)
    \/ \E idx \in ObjIdx, scaling_factor \in InstanceScales :
          ModelObject_add_instance(idx, 0, scaling_factor)
    \/ \E idx \in ObjIdx :
          \E iidx \in 1 .. Len(objects[idx].instances) : ModelObject_delete_instance(idx, iidx)
    \/ \E idx \in ObjIdx : ModelObject_bounding_box(idx)
    \/ \E idx \in ObjIdx, x \in Shifts : ModelObject_translate(idx, x)
    \/ \E idx \in ObjIdx, x \in Shifts :
          \E iidx \in 1 .. Len(objects[idx].instances) : ModelObject_translate_instance(idx, iidx, x)
    \/ \E idx \in ObjIdx, versor \in Versors : ModelObject_scale(idx, versor)
    \/ \E idx \in ObjIdx : ModelObject_mirror(idx)
    \/ \E idx \in ObjIdx : ModelObject_center_around_origin(idx)

\* A Model right after its first Model::add_object(): one empty object.
InitBBox ==
    /\ GuiIdle
    /\ s_auto_extruder_id = 1
    /\ PipeIdle
    /\ StepsIdle
    /\ s_last_id = 1
    /\ materials = <<>>
    /\ objects = << NewModelObject(1) >>
    /\ ret = NoCall

\* The objects of a model under the operations that move their volumes and
\* instances, and the reads of the cached bounding box.
SpecBBox == InitBBox /\ [][NextBBox]_vars

(***************************************************************************)
(* C1                                                                      *)
(***************************************************************************)
\* t is S or depends on S directly or transitively (looked up from t
\* backwards through the table).
RECURSIVE DependsOnStar(_, _, _)
DependsOnStar(d, t, S) ==
    \/ t = S
    \/ \E u \in d[t] : DependsOnStar(d, u, S)

\* C1: after invalidate_step(S), S and every step depending on S directly or
\* transitively are not done, and the flag of every other step (the steps S
\* depends on, and the independent ones) is what it was before the call.
C1_InvalidateCascades ==
    glast.op = "invalidate" =>
        \A t \in GSteps :
            gdone[t] = (IF DependsOnStar(deps, t, glast.step) THEN FALSE ELSE glast.before[t])

\* The chain A -> B -> C, all done, then B invalidated: A stays done.
C1_Witness ==
    /\ deps = [s \in GSteps |-> IF s = 0 THEN {} ELSE {s - 1}]
    /\ glast.op = "invalidate" /\ glast.step = 1
    /\ \A s \in GSteps : glast.before[s]
    /\ gdone[0] /\ ~gdone[1] /\ ~gdone[2]

(***************************************************************************)
(* C2 - C8: the SLA pipeline                                               *)
(***************************************************************************)
\* The step of the background thread that reconciles a snapshot.
ReconcileStep == bgPc = "reconcile" /\ bgPc' = "idle"

IdsOf(model) == {model[i] : i \in 1 .. Len(model)}

\* C2: apply() with an unchanged snapshot (same object IDs in the same
\* order, no option changed) changes no done flag of any object or of the
\* print, and creates or destroys no PrintObject.
C2_ApplyIdempotent ==
    [][(ReconcileStep /\ m_model' = m_model /\ lastChanged' = {})
        => (m_objects' = m_objects /\ m_pdone' = m_pdone)]_vars

\* An unchanged snapshot was applied to a finished, rasterized print.
C2_Witness ==
    /\ lastApply = "equal"
    /\ finished(m_objects)
    /\ m_pdone[slapsRasterize]

IsStrictPrefix(old, new) ==
    /\ Len(old) < Len(new)
    /\ \A i \in 1 .. Len(old) : old[i] = new[i]

\* C3: when the snapshot's ID list is the retained list with objects
\* appended, every previously existing PrintObject keeps its done flags and
\* exactly the appended objects start with no step done.
C3_ExtensionPreserves ==
    [][(ReconcileStep /\ IsStrictPrefix(m_model, m_model'))
        => /\ Len(m_objects') = Len(m_model')
           /\ \A i \in 1 .. Len(m_objects) :
                /\ m_objects'[i].id = m_objects[i].id
                /\ m_objects'[i].done = m_objects[i].done
           /\ \A i \in (Len(m_objects) + 1) .. Len(m_objects') :
                /\ m_objects'[i].id = m_model'[i]
                /\ \A st \in Steps : ~m_objects'[i].done[st]]_vars

\* An object was appended to a print whose first object has its support tree.
C3_Witness ==
    /\ lastApply = "extended"
    /\ Len(m_objects) = 2
    /\ m_objects[1].done[slaposSupportTree]
    /\ ~m_objects[2].done[slaposObjectSlice]

C6_StepsInOrder ==
    \A i \in 1 .. Len(m_objects) :
        /\ m_objects[i].rstep # NotRunning =>
             /\ ~m_objects[i].done[m_objects[i].rstep]
             /\ \A t \in slaDeps[m_objects[i].rstep] : m_objects[i].done[t]
        /\ \A st \in Steps : m_objects[i].done[st] =>
             \A t \in 0 .. (st - 1) : m_objects[i].done[t]

\* Two objects have steps in flight at different places of the chain.
C6_Witness ==
    /\ Len(m_objects) = 2
    /\ m_objects[1].rstep = slaposSupportTree
    /\ m_objects[2].rstep = slaposObjectSlice

\* Object i's step in flight ends in this step without having completed.
EndsUndone(i) ==
    /\ m_objects[i].rstep # NotRunning
    /\ m_objects'[i].rstep = NotRunning
    /\ ~m_objects'[i].done[m_objects[i].rstep]

\* C7: a step that ends by the cancellation signal stays not done and
\* changes no flag and no result of any step; what it had built is not
\* observable (a result is all or nothing, and there only with the flag);
\* once the walk is aborted no step is started; and the outcome "cancelled"
\* is reported only when the stop condition was raised, "failed" otherwise.
C7_CancelCommitsNothing ==
    /\ [](\A i \in 1 .. Len(m_objects) : \A st \in Steps :
            /\ m_objects[i].res[st] \in {0, Phases(st)}
            /\ (m_objects[i].res[st] = Phases(st)) = m_objects[i].done[st])
    /\ [][\A i \in 1 .. Len(m_objects) :
            /\ EndsUndone(i) =>
                 /\ m_objects' = [m_objects EXCEPT ![i].rstep = NotRunning, ![i].rphase = 0]
                 /\ m_pdone' = m_pdone
                 /\ outcome' \in {"cancelled", "failed"}
                 /\ (outcome = "none" /\ ~stop) => outcome' = "failed"
                 /\ outcome' = "cancelled" => stop
            /\ (bgPc = "process" /\ outcome \in {"cancelled", "failed"}) =>
                 /\ m_objects'[i].rstep \in {NotRunning, m_objects[i].rstep}
                 /\ m_pdone' = m_pdone]_vars

\* The support tree step of one object was cancelled; the steps done before
\* it, and the other object's, are still there.
C7_Witness ==
    /\ bgPc = "process"
    /\ outcome = "cancelled"
    /\ Len(m_objects) = 2
    /\ m_objects[1].done[slaposSupportPoints] /\ ~m_objects[1].done[slaposSupportTree]
    /\ m_objects[1].rstep = NotRunning
    /\ m_objects[2].done[slaposObjectSlice]

\* C8: SLAPrint::is_step_done(step) is true exactly when the print has at
\* least one object and every object has the step done; on a print with no
\* objects it is false for every step, and so is finished().
C8_PrintStepDone ==
    /\ \A st \in Steps :
         is_step_done(m_objects, st) =
            (Len(m_objects) >= 1 /\ \A i \in 1 .. Len(m_objects) : m_objects[i].done[st])
    /\ (Len(m_objects) = 0 => ~finished(m_objects))

\* The last object was removed from a print.
C8_Witness ==
    /\ lastApply = "general"
    /\ m_objects = <<>>
    /\ ~finished(m_objects)


(***************************************************************************)
(* C9 - C10: the ownership tree                                            *)
(***************************************************************************)

\* C9: after any sequence of add / delete / split / convert operations on a
\* Model, the IDs of its live objects, volumes, instances and materials are
\* non-zero and pairwise distinct (what check_model_ids_validity asserts).
C9_IdsValidAndUnique == check_model_ids_validity(ModelIds)

\* C10: after any sequence of operations on an object, a cached bounding
\* box that is marked valid, the box the next bounding_box() read returns,
\* is the box a fresh computation from the object's model-part volumes and
\* instance transformations gives.
C10_CachedBoxIsFresh ==
    \A idx \in ObjIdx :
        objects[idx].m_bounding_box_valid =>
            objects[idx].m_bounding_box = compute_bounding_box(objects[idx])

(***************************************************************************)
(* C11 - C20                                                               *)
(***************************************************************************)

\* C11: two bounding_box() calls in a row on an object return the same box;
\* the first leaves the cache valid, so the second computes nothing and
\* changes nothing, and neither changes the object's ID, volumes or
\* instances.
C11_BoundingBoxIdempotent ==
    \A idx \in ObjIdx :
        LET o == objects[idx]
            first == bounding_box(o)
            second == bounding_box(first.object)
        IN  /\ second.box = first.box
            /\ first.object.m_bounding_box_valid
            /\ second.object = first.object
            /\ first.object.id = o.id
            /\ first.object.volumes = o.volumes
            /\ first.object.instances = o.instances

\* bounding_box() was read on an object with a volume and an instance, whose
\* cache now holds the computed box.
C11_Witness ==
    \E idx \in ObjIdx :
        /\ objects[idx].m_bounding_box_valid
        /\ objects[idx].m_bounding_box.defined
        /\ objects[idx].m_bounding_box = compute_bounding_box(objects[idx])
        /\ bounding_box(objects[idx]).box = objects[idx].m_bounding_box

\* The box of a volume's geometry in the world under an instance.
WorldBox(inst, v) == transform_bounding_box(inst, volume_bounding_box(v), FALSE)

VolumeTransform(v) == <<v.offset, v.scaling_factor, v.mirror>>

\* C12, first part: when delete_volume leaves one volume, that volume ends
\* with zero offset and its mesh centred on the origin, and every instance's
\* offset grows by the instance's linear transform applied to the volume's
\* offset after centring; when it leaves another number of volumes, no
\* volume transform and no instance changes.
C12_RecentreMechanics ==
    [][\A idx \in ObjIdx : \A vidx \in 1 .. Len(objects[idx].volumes) :
          ModelObject_delete_volume(idx, vidx) =>
            LET o == objects[idx]
                after == objects'[idx]
                rest == RemoveAt(o.volumes, vidx)
                vol_offset == rest[1].offset + bbox_center(mesh_bounding_box(rest[1].mesh))
            IN  IF Len(rest) = 1
                THEN /\ Len(after.volumes) = 1
                     /\ after.volumes[1].offset = 0
                     /\ bbox_center(mesh_bounding_box(after.volumes[1].mesh)) = 0
                     /\ Len(after.instances) = Len(o.instances)
                     /\ \A k \in 1 .. Len(o.instances) :
                          after.instances[k].offset =
                             o.instances[k].offset + instance_factor(o.instances[k]) * vol_offset
                ELSE /\ Len(after.volumes) = Len(rest)
                     /\ \A k \in 1 .. Len(rest) :
                          VolumeTransform(after.volumes[k]) = VolumeTransform(rest[k])
                     /\ after.instances = o.instances]_vars

\* C12: as the first part, and the re-centring leaves the remaining
\* geometry where it was in the world under every instance.
C12_DeleteVolumeRecentres ==
    /\ C12_RecentreMechanics
    /\ [][\A idx \in ObjIdx : \A vidx \in 1 .. Len(objects[idx].volumes) :
            (ModelObject_delete_volume(idx, vidx) /\ Len(objects[idx].volumes) = 2) =>
               \A k \in 1 .. Len(objects[idx].instances) :
                  WorldBox(objects'[idx].instances[k], objects'[idx].volumes[1]) =
                     WorldBox(objects[idx].instances[k], RemoveAt(objects[idx].volumes, vidx)[1])]_vars

(***************************************************************************)
(* ModelObject::cut, along the axis.  Every part of a mesh is a prism of   *)
(* the same width across the axis, centred on it.                          *)
(***************************************************************************)
MeshWidth == 4
MaxVolumes == 2

Abs(x) == IF x < 0 THEN 0 - x ELSE x
Sign(x) == IF x < 0 THEN 0 - 1 ELSE 1

\* TriangleMesh::transform by p |-> factor * p + offset.
mesh_transform(m, factor, offset) ==
    [k \in 1 .. Len(m) |-> <<Min2(factor * m[k][1], factor * m[k][2]) + offset,
                             Max2(factor * m[k][1], factor * m[k][2]) + offset>>]

\* TriangleMeshSlicer::cut: what lies above the plane and what lies below
\* it; a part that only touches the plane gives nothing on the other side.
mesh_cut_upper(m, z) ==
    LET above == SelectSeq(m, LAMBDA part : part[2] > z)
    IN  [k \in 1 .. Len(above) |-> <<Max2(above[k][1], z), above[k][2]>>]

mesh_cut_lower(m, z) ==
    LET below == SelectSeq(m, LAMBDA part : part[1] < z)
    IN  [k \in 1 .. Len(below) |-> <<below[k][1], Min2(below[k][2], z)>>]

\* Zero exactly when the mesh is empty.
mesh_facets_count(m) == Len(m)

\* The volume enclosed by a mesh, per unit of cross-section.
RECURSIVE mesh_volume_from(_, _)
mesh_volume_from(m, k) ==
    IF k > Len(m) THEN 0 ELSE (m[k][2] - m[k][1]) + mesh_volume_from(m, k + 1)

mesh_volume(m) == mesh_volume_from(m, 1)

\* The loop of cut over the volumes, from volume k on.  acc holds the
\* volumes given so far to the upper and to the lower object, the source
\* object's volumes as the loop leaves them, the per-instance size across
\* the axis of the lower parts' boxes, the number of IDs handed out, and
\* whether a material was set through an object that has no model.
RECURSIVE cut_volumes(_, _, _, _, _, _, _)
cut_volumes(o, sel, z, keep_upper, keep_lower, k, acc) ==
    IF k > Len(o.volumes) THEN acc
    ELSE
      LET volume == o.volumes[k]
          fi == instance_factor(o.instances[sel])
          factor == fi * volume.scaling_factor * volume.mirror
          nu == IF keep_upper THEN 1 ELSE 0
      IN  IF ~is_model_part(volume)
          THEN
            LET moved == [volume EXCEPT !.offset = fi * @,
                                        !.scaling_factor = Abs(factor),
                                        !.mirror = Sign(factor)]
                up == IF keep_upper
                      THEN Append(acc.upper, [moved EXCEPT !.id = generate_new_id(acc.n + 1)])
                      ELSE acc.upper
                lo == IF keep_lower
                      THEN Append(acc.lower, [moved EXCEPT !.id = generate_new_id(acc.n + nu + 1)])
                      ELSE acc.lower
            IN  cut_volumes(o, sel, z, keep_upper, keep_lower, k + 1,
                    [acc EXCEPT !.upper = up, !.lower = lo,
                                !.source = Append(@, moved),
                                !.n = @ + nu + (IF keep_lower THEN 1 ELSE 0)])
          ELSE
            LET mesh == mesh_transform(volume.mesh, factor, fi * volume.offset)
                upper_mesh == mesh_cut_upper(mesh, z)
                lower_mesh == mesh_cut_lower(mesh, z)
                reset == [volume EXCEPT !.mesh = mesh, !.scaling_factor = 1, !.mirror = 1]
                add_up == keep_upper /\ mesh_facets_count(upper_mesh) > 0
                add_lo == keep_lower /\ mesh_facets_count(lower_mesh) > 0
                na == IF add_up THEN 1 ELSE 0
                up == IF add_up
                      THEN Append(acc.upper,
                               [NewModelVolume(generate_new_id(acc.n + 1), upper_mesh)
                                   EXCEPT !.material_id = volume.material_id])
                      ELSE acc.upper
                lo == IF add_lo
                      THEN Append(acc.lower,
                               [NewModelVolume(generate_new_id(acc.n + na + 1), lower_mesh)
                                   EXCEPT !.material_id = volume.material_id])
                      ELSE acc.lower
                sizes == IF add_lo /\ keep_upper
                         THEN [i \in 1 .. Len(o.instances) |->
                                  Max2(acc.lower_sizes[i],
                                       MeshWidth * Abs(factor) * o.instances[i].scaling_factor)]
                         ELSE acc.lower_sizes
            IN  cut_volumes(o, sel, z, keep_upper, keep_lower, k + 1,
                    [acc EXCEPT !.upper = up, !.lower = lo,
                                !.source = Append(@, reset),
                                !.lower_sizes = sizes,
                                !.n = @ + na + (IF add_lo THEN 1 ELSE 0),
                                !.no_model = @ \/ ((add_up \/ add_lo) /\ volume.material_id # "")])

\* A bug variant: the upper half's instances stay where the source's are.
cut_displace_none(size) == 0

\* The displacement across the axis of an instance of the upper half: half
\* the size of the lower half's box under that instance, backwards.
cut_displace(size) == 0 - (size \div 2)

\* A bug variant: the plane is taken at the height given, without moving it
\* into the selected instance's frame.
cut_plane_z_not_moved(o, sel, cut_z) == cut_z

\* The height of the plane once the selected instance's offset is taken off.
cut_plane_z(o, sel, cut_z) == cut_z - o.instances[sel].offset

\* ModelObject::cut with at least one keep flag set: the source object as
\* the call leaves it, the objects returned, the IDs handed out, and
\* whether a material was set through an object that has no model.
cut(o, sel, cut_z, keep_upper, keep_lower, rotate_lower) ==
    LET z == cut_plane_z(o, sel, cut_z)
        acc == cut_volumes(o, sel, z, keep_upper, keep_lower, 1,
                   [upper |-> <<>>, lower |-> <<>>, source |-> <<>>,
                    lower_sizes |-> [i \in 1 .. Len(o.instances) |-> 0],
                    n |-> 0, no_model |-> FALSE])
        upper == center_around_origin(invalidate_bounding_box([o EXCEPT !.volumes = acc.upper]))
        lower == center_around_origin(invalidate_bounding_box([o EXCEPT !.volumes = acc.lower]))
        upper_instance(i) ==
            [NewModelInstance(o.instances[i].id) EXCEPT
                !.offset = o.instances[i].offset,
                !.offset_xy = o.instances[i].offset_xy + cut_displace(acc.lower_sizes[i]),
                !.rotation_z = o.instances[i].rotation_z]
        lower_instance(i) ==
            [NewModelInstance(o.instances[i].id) EXCEPT
                !.offset = o.instances[i].offset,
                !.offset_xy = o.instances[i].offset_xy,
                !.rotation_xy = IF rotate_lower THEN 180 ELSE 0,
                !.rotation_z = o.instances[i].rotation_z]
        res_upper == IF keep_upper /\ Len(acc.upper) > 0
                     THEN << [upper EXCEPT !.instances =
                                 [i \in 1 .. Len(o.instances) |-> upper_instance(i)]] >>
                     ELSE <<>>
        res_lower == IF keep_lower /\ Len(acc.lower) > 0
                     THEN << [lower EXCEPT !.instances =
                                 [i \in 1 .. Len(o.instances) |-> lower_instance(i)]] >>
                     ELSE <<>>
    IN  [source |-> [o EXCEPT !.volumes = acc.source],
         res |-> res_upper \o res_lower,
         n |-> acc.n,
         no_model |-> acc.no_model]

\* ModelObject::cut on object idx.  Setting a material through an object
\* that has no model is a call through a null pointer: the call may end
\* the program or go on as if the material had been set.
ModelObject_cut(idx, sel, cut_z, keep_upper, keep_lower, rotate_lower) ==
    LET o == objects[idx]
        args == [instance |-> sel, z |-> cut_z, keep_upper |-> keep_upper,
                 keep_lower |-> keep_lower, rotate_lower |-> rotate_lower]
        c == cut(o, sel, cut_z, keep_upper, keep_lower, rotate_lower)
    IN  /\ ret = NoCall
        /\ IF ~keep_upper /\ ~keep_lower
           THEN /\ ret' = [op |-> "cut", args |-> args, before |-> o, outcome |-> "returned", res |-> <<>>]
                /\ UNCHANGED <<objects, s_last_id>>
           ELSE /\ \E how \in (IF c.no_model THEN {"returned", "crashed"} ELSE {"returned"}) :
                      ret' = [op |-> "cut", args |-> args, before |-> o, outcome |-> how,
                              res |-> IF how = "returned" THEN c.res ELSE <<>>]
                /\ objects' = [objects EXCEPT ![idx] = c.source]
                /\ s_last_id' = s_last_id + c.n
        /\ UNCHANGED <<guiVars, s_auto_extruder_id, stepVars, pipeVars, materials>>

\* The objects drawn as inputs: their volumes and instances each differ
\* from a default one in at most one respect.
DefaultVolume == NewModelVolume(0, << <<0, 4>> >>)

SourceVolumes ==
    { DefaultVolume,
      [DefaultVolume EXCEPT !.mesh = << <<0 - 2, 2>> >>],
      [DefaultVolume EXCEPT !.offset = 2],
      [DefaultVolume EXCEPT !.scaling_factor = 2],
      [DefaultVolume EXCEPT !.material_id = "A"],
      [DefaultVolume EXCEPT !.type = "PARAMETER_MODIFIER"] }

SourceInstances ==
    { NewModelInstance(0),
      [NewModelInstance(0) EXCEPT !.offset = 2],
      [NewModelInstance(0) EXCEPT !.scaling_factor = 2],
      [NewModelInstance(0) EXCEPT !.rotation_z = 90],
      [NewModelInstance(0) EXCEPT !.rotation_xy = 180],
      [NewModelInstance(0) EXCEPT !.mirror = 0 - 1] }

\* One instance, or two of which the second is a default one, a scaled one
\* or one turned about the axis.
CutInstanceLists ==
    { << a >> : a \in SourceInstances }
       \cup { << a, b >> : a \in SourceInstances,
                           b \in { i \in SourceInstances :
                                      i.offset = 0 /\ i.mirror = 1 /\ i.rotation_xy = 0 } }

CutHeights == {0, 2, 5}

SeqsUpTo(S, n) == UNION { [1 .. len -> S] : len \in 1 .. n }
SeqsFromZeroUpTo(S, n) == UNION { [1 .. len -> S] : len \in 0 .. n }

\* An object under the IDs it would have been given from id on: the object,
\* its volumes, its instances.
SourceObject(id, vs, is) ==
    [NewModelObject(id) EXCEPT
        !.volumes = [k \in 1 .. Len(vs) |-> [vs[k] EXCEPT !.id = id + k]],
        !.instances = [k \in 1 .. Len(is) |-> [is[k] EXCEPT !.id = id + Len(vs) + k]]]

InitCut ==
    /\ GuiIdle
    /\ s_auto_extruder_id = 1
    /\ PipeIdle
    /\ StepsIdle
    /\ ret = NoCall
    /\ materials = [key \in {"A"} |-> 1]
    /\ \E vs \in SeqsUpTo(SourceVolumes, MaxVolumes), is \in CutInstanceLists :
          /\ objects = << SourceObject(2, vs, is) >>
          /\ s_last_id = 2 + Len(vs) + Len(is)

NextCut ==
    \E idx \in ObjIdx :
       \E sel \in 1 .. Len(objects[idx].instances), cut_z \in CutHeights,
          keep_upper \in BOOLEAN, keep_lower \in BOOLEAN :
             \E rotate_lower \in (IF keep_lower THEN BOOLEAN ELSE {FALSE}) :
                ModelObject_cut(idx, sel, cut_z, keep_upper, keep_lower, rotate_lower)

\* One cut of an object drawn from the source objects.
SpecCut == InitCut /\ [][NextCut]_vars

(***************************************************************************)
(* The queries of ModelObject.                                             *)
(***************************************************************************)
\* ModelInstance::transform_mesh_bounding_box: the box of the mesh under the
\* instance's rotation, then scaled by the scaling factor, then moved by the
\* offset unless told not to.  The instance's mirror is not applied.
transform_mesh_bounding_box(inst, mesh_bbox, dont_translate) ==
    LET rotated == bbox_transformed(mesh_bbox, IF inst.rotation_xy = 180 THEN 0 - 1 ELSE 1, 0)
    IN  IF ~rotated.defined THEN rotated
        ELSE [defined |-> TRUE,
              min |-> rotated.min * inst.scaling_factor + (IF dont_translate THEN 0 ELSE inst.offset),
              max |-> rotated.max * inst.scaling_factor + (IF dont_translate THEN 0 ELSE inst.offset)]

RECURSIVE parts_bbox_under_from(_, _, _, _)
parts_bbox_under_from(vs, inst, dont_translate, k) ==
    IF k > Len(vs) THEN BBoxUndefined
    ELSE bbox_merge(IF is_model_part(vs[k])
                    THEN transform_mesh_bounding_box(inst, volume_bounding_box(vs[k]), dont_translate)
                    ELSE BBoxUndefined,
                    parts_bbox_under_from(vs, inst, dont_translate, k + 1))

\* ModelObject::raw_bounding_box: the model parts' box under the first
\* instance's matrix without its translation.  The instance list is looked
\* at inside the loop, on meeting a model part.
raw_bounding_box(o) ==
    IF ModelPartsOf(o) # <<>> /\ o.instances = <<>>
    THEN [outcome |-> "invalid_argument", box |-> BBoxUndefined]
    ELSE [outcome |-> "returned",
          box |-> IF o.instances = <<>> THEN BBoxUndefined
                  ELSE parts_bbox_under_from(o.volumes, o.instances[1], TRUE, 1)]

ModelObject_raw_bounding_box(idx) ==
    /\ ret' = [op |-> "raw_bounding_box", before |-> objects[idx]] @@ raw_bounding_box(objects[idx])
    /\ UNCHANGED <<guiVars, s_auto_extruder_id, stepVars, pipeVars, objects, materials, s_last_id>>

\* What a read past the end of the instance list may be taken for.
GarbageInstances == { NewModelInstance(0), [NewModelInstance(0) EXCEPT !.offset = 2] }

\* ModelObject::instance_bounding_box: the model parts' box under the given
\* instance.  The index is not checked: with a model part to transform and
\* an index past the end the read is out of bounds, and the call may end
\* the program or go on with whatever it read.
ModelObject_instance_bounding_box(idx, instance_idx, dont_translate) ==
    LET o == objects[idx]
        call == [op |-> "instance_bounding_box", before |-> o,
                 instance_idx |-> instance_idx, dont_translate |-> dont_translate]
    IN  /\ IF ModelPartsOf(o) = <<>>
           THEN ret' = call @@ [outcome |-> "returned", box |-> BBoxUndefined]
           ELSE IF instance_idx <= Len(o.instances)
           THEN ret' = call @@ [outcome |-> "returned",
                                box |-> parts_bbox_under_from(o.volumes, o.instances[instance_idx],
                                                              dont_translate, 1)]
           ELSE \/ ret' = call @@ [outcome |-> "crashed", box |-> BBoxUndefined]
                \/ \E inst \in GarbageInstances :
                      ret' = call @@ [outcome |-> "returned",
                                      box |-> parts_bbox_under_from(o.volumes, inst, dont_translate, 1)]
        /\ UNCHANGED <<guiVars, s_auto_extruder_id, stepVars, pipeVars, objects, materials, s_last_id>>

\* ModelObject::instance_bounding_box for an index within the list.
instance_bounding_box(o, instance_idx, dont_translate) ==
    parts_bbox_under_from(o.volumes, o.instances[instance_idx], dont_translate, 1)

\* ModelObject::raw_mesh: the model parts' meshes under their volumes'
\* transformations, merged.
RECURSIVE raw_mesh_from(_, _)
raw_mesh_from(vs, k) ==
    IF k > Len(vs) THEN <<>>
    ELSE (IF is_model_part(vs[k])
          THEN mesh_transform(vs[k].mesh, vs[k].scaling_factor * vs[k].mirror, vs[k].offset)
          ELSE <<>>) \o raw_mesh_from(vs, k + 1)

raw_mesh(o) == raw_mesh_from(o.volumes, 1)

RECURSIVE facets_count_from(_, _)
facets_count_from(vs, k) ==
    IF k > Len(vs) THEN 0
    ELSE (IF is_model_part(vs[k]) THEN mesh_facets_count(vs[k].mesh) ELSE 0)
            + facets_count_from(vs, k + 1)

facets_count(o) == facets_count_from(o.volumes, 1)

DBL_MAX == 1000

RECURSIVE min_z_from(_, _, _)
min_z_from(vs, inst, k) ==
    IF k > Len(vs) THEN DBL_MAX
    ELSE IF ~is_model_part(vs[k]) \/ vs[k].mesh = <<>> THEN min_z_from(vs, inst, k + 1)
    ELSE Min2(transform_bounding_box(inst, volume_bounding_box(vs[k]), TRUE).min,
              min_z_from(vs, inst, k + 1))

\* ModelObject::get_instance_min_z: the lowest point of the model parts'
\* hulls under the instance's matrix without translation, plus the
\* instance's offset.
get_instance_min_z(o, instance_idx) ==
    min_z_from(o.volumes, o.instances[instance_idx], 1) + o.instances[instance_idx].offset

bbox_contains(a, b) == a.min <= b.min /\ b.max <= a.max
bbox_intersects(a, b) == a.min < b.max /\ b.min < a.max

\* The two flags check_instances_print_volume_state collects for an
\* instance over the model parts: some part's box lies within the print
\* volume or crosses its border (inside), some part's box crosses the
\* border or lies beyond it (outside).
RECURSIVE inside_outside_from(_, _, _, _)
inside_outside_from(vs, inst, print_volume, k) ==
    IF k > Len(vs) THEN [inside |-> FALSE, outside |-> FALSE]
    ELSE
      LET rest == inside_outside_from(vs, inst, print_volume, k + 1)
          bb == transform_bounding_box(inst, volume_bounding_box(vs[k]), FALSE)
      IN  IF ~is_model_part(vs[k]) THEN rest
          ELSE IF bbox_contains(print_volume, bb) THEN [rest EXCEPT !.inside = TRUE]
          ELSE IF bbox_intersects(print_volume, bb) THEN [inside |-> TRUE, outside |-> TRUE]
          ELSE [rest EXCEPT !.outside = TRUE]

\* A bug variant: an instance none of whose model parts is found outside
\* counts as inside, also when there is no model part.
print_volume_state_unless_outside(o, inst, print_volume) ==
    LET io == inside_outside_from(o.volumes, inst, print_volume, 1)
    IN  IF io.inside /\ io.outside THEN "PVS_Partly_Outside"
        ELSE IF ~io.outside THEN "PVS_Inside"
        ELSE "PVS_Fully_Outside"

\* The state an instance is given from the two flags.
print_volume_state(o, inst, print_volume) ==
    LET io == inside_outside_from(o.volumes, inst, print_volume, 1)
    IN  IF io.inside /\ io.outside THEN "PVS_Partly_Outside"
        ELSE IF io.inside THEN "PVS_Inside"
        ELSE "PVS_Fully_Outside"

\* ModelObject::check_instances_print_volume_state: the state given to
\* each instance and the number of instances found inside.
check_instances_print_volume_state(o, print_volume) ==
    LET states == [i \in 1 .. Len(o.instances) |-> print_volume_state(o, o.instances[i], print_volume)]
    IN  [states |-> states,
         num_printable |-> Cardinality({i \in 1 .. Len(states) : states[i] = "PVS_Inside"})]

ModifierTypes == {"PARAMETER_MODIFIER", "SUPPORT_ENFORCER", "SUPPORT_BLOCKER"}

\* ModelObject::add_volume(mesh) followed by ModelVolume::set_type on the
\* new volume.
ModelObject_add_volume_of_type(idx, mesh, type) ==
    LET o == objects[idx]
    IN  /\ Len(o.volumes) < MaxVolumes
        /\ s_last_id + 1 <= MaxId
        /\ objects' = [objects EXCEPT ![idx] = invalidate_bounding_box(
                          [o EXCEPT !.volumes =
                              Append(@, [NewModelVolume(generate_new_id(1), mesh) EXCEPT !.type = type])])]
        /\ s_last_id' = s_last_id + 1
        /\ UNCHANGED <<guiVars, s_auto_extruder_id, stepVars, pipeVars, ret, materials>>

\* ModelVolume::translate and ModelVolume::scale on one volume.
ModelVolume_translate(idx, vidx, displacement) ==
    /\ objects[idx].volumes[vidx].offset + displacement <= MaxCoord
    /\ objects' = [objects EXCEPT ![idx].volumes[vidx].offset = @ + displacement]
    /\ UNCHANGED <<guiVars, s_auto_extruder_id, stepVars, pipeVars, ret, materials, s_last_id>>

ModelVolume_scale(idx, vidx, versor) ==
    /\ objects[idx].volumes[vidx].scaling_factor * versor <= MaxScale
    /\ objects' = [objects EXCEPT ![idx].volumes[vidx].scaling_factor = @ * versor]
    /\ UNCHANGED <<guiVars, s_auto_extruder_id, stepVars, pipeVars, ret, materials, s_last_id>>

\* The volumes and instances of the objects the queries are made on.
QueryVolumes ==
    { [DefaultVolume EXCEPT !.mesh = mesh, !.offset = offset, !.type = type] :
         mesh \in { << <<0, 4>> >>, << <<0 - 2, 2>> >> }, offset \in {0, 2},
         type \in {"MODEL_PART", "PARAMETER_MODIFIER"} }

QueryInstances == { i \in SourceInstances : i.rotation_z = 0 /\ i.rotation_xy = 0 }

\* A Model holding one object drawn from the input domains, with any
\* number of instances from none on.
InitQuery ==
    /\ GuiIdle
    /\ s_auto_extruder_id = 1
    /\ PipeIdle
    /\ StepsIdle
    /\ ret = NoCall
    /\ materials = <<>>
    /\ \E vs \in SeqsFromZeroUpTo(QueryVolumes, MaxVolumes), is \in SeqsFromZeroUpTo(QueryInstances, 2) :
          /\ objects = << SourceObject(1, vs, is) >>
          /\ s_last_id = 1 + Len(vs) + Len(is)

NextQuery ==
    \/ \E idx \in ObjIdx : ModelObject_raw_bounding_box(idx)
    \/ \E idx \in ObjIdx :
          \E instance_idx \in 1 .. Max2(1, Len(objects[idx].instances)), dont_translate \in BOOLEAN :
             ModelObject_instance_bounding_box(idx, instance_idx, dont_translate)
    \/ \E idx \in ObjIdx : ModelObject_bounding_box(idx)

\* The queries made on a drawn object.
SpecQuery == InitQuery /\ [][NextQuery]_vars

Modifiers(o) == { k \in 1 .. Len(o.volumes) : ~is_model_part(o.volumes[k]) }

EditVolumes == { v \in SourceVolumes : v.material_id = "" }

InitEdit ==
    /\ GuiIdle
    /\ s_auto_extruder_id = 1
    /\ PipeIdle
    /\ StepsIdle
    /\ ret = NoCall
    /\ materials = <<>>
    /\ \E vs \in SeqsFromZeroUpTo(EditVolumes, MaxVolumes), is \in SeqsFromZeroUpTo(QueryInstances, 2) :
          /\ objects = << SourceObject(1, vs, is) >>
          /\ s_last_id = 1 + Len(vs) + Len(is)

NextEdit ==
    \/ \E idx \in ObjIdx : ModelObject_bounding_box(idx)
    \/ \E idx \in ObjIdx, mesh \in Meshes, type \in ModifierTypes :
          ModelObject_add_volume_of_type(idx, mesh, type)
    \/ \E idx \in ObjIdx :
          \E vidx \in 1 .. Len(objects[idx].volumes) : ModelObject_delete_volume(idx, vidx)
    \/ \E idx \in ObjIdx, displacement \in Shifts :
          \E vidx \in Modifiers(objects[idx]) : ModelVolume_translate(idx, vidx, displacement)
    \/ \E idx \in ObjIdx, versor \in Versors :
          \E vidx \in Modifiers(objects[idx]) : ModelVolume_scale(idx, vidx, versor)

\* A drawn object under the edits of its modifier volumes.
SpecEdit == InitEdit /\ [][NextEdit]_vars

\* The objects split is called on: volumes of one or two connected parts,
\* a name and a config.
SplitVolumes ==
    { [DefaultVolume EXCEPT !.mesh = mesh, !.offset = offset, !.scaling_factor = scaling_factor] :
         mesh \in Meshes, offset \in {0, 2}, scaling_factor \in {1, 2} }

InitSplit ==
    /\ GuiIdle
    /\ s_auto_extruder_id = 1
    /\ PipeIdle
    /\ StepsIdle
    /\ ret = NoCall
    /\ materials = <<>>
    /\ \E vs \in SeqsFromZeroUpTo(SplitVolumes, MaxVolumes), is \in SeqsFromZeroUpTo(QueryInstances, 2),
          name \in {"", "bracket"}, config \in {"", "fill_density"} :
          /\ objects = << [SourceObject(1, vs, is) EXCEPT !.name = name, !.config = config] >>
          /\ s_last_id = 1 + Len(vs) + Len(is)

NextSplit == \E idx \in ObjIdx : ModelObject_split(idx)

\* A drawn object and what split makes of it.
SpecSplit == InitSplit /\ [][NextSplit]_vars

(***************************************************************************)
(* The slice index of a print object (SLAPrint.hpp:91-112, 149-151).       *)
(* A slice is modelled by the height it was taken at, an integer in fine   *)
(* units; a height level is a multiple of Quantum of these units.          *)
(***************************************************************************)
\* The largest height a slice is taken at.
MaxHeight == 7

\* The fine units in one unit of the scaled coordinates.
Quantum == 2

Heights == 0 .. MaxHeight

\* The height level of a height: the height in scaled coordinates, read back
\* in the units of the heights.
quantized(height) == (height \div Quantum) * Quantum

\* A bug variant: the heights are compared as they are.
slice_key_raw(height) == height

\* SliceRecord::Key of a slice taken at the height.
slice_key(height) == quantized(height)

\* SliceRecord::NONE, Idx(-1): the value no index into a slice array has.
NONE == 0 - 1

\* A SliceRecord as constructed, under its key in the SliceIndex.
SliceRecord(key) ==
    [key |-> key, model_slices_idx |-> NONE, support_slices_idx |-> NONE]

\* SliceIndex, a std::map: the records in ascending order of their keys.
\* operator[]: the index with a record under the key, a fresh one if there
\* was none.
SliceIndex_at(index, key) ==
    IF \E k \in 1 .. Len(index) : index[k].key = key THEN index
    ELSE SelectSeq(index, LAMBDA r : r.key < key)
            \o << SliceRecord(key) >>
            \o SelectSeq(index, LAMBDA r : r.key > key)

\* The index after the slices i.. of one slice array were entered: the
\* record under the slice's key gets the position of the slice in its array
\* (counted from 0) in the field of that array.
RECURSIVE index_slices_from(_, _, _, _)
index_slices_from(index, slices, field, i) ==
    IF i > Len(slices) THEN index
    ELSE LET key == slice_key(slices[i])
             at  == SliceIndex_at(index, key)
         IN  index_slices_from(
                [k \in 1 .. Len(at) |->
                    IF at[k].key = key THEN [at[k] EXCEPT ![field] = i - 1] ELSE at[k]],
                slices, field, i + 1)

\* The slice index of a print object: the model slices are entered, then
\* the support slices.
index_slices(po) ==
    index_slices_from(
        index_slices_from(<< >>, po.m_model_slices, "model_slices_idx", 1),
        po.support_slices, "support_slices_idx", 1)

\* The step slaposIndexSlices of the k-th print object.
SLAPrintObject_index_slices(k) ==
    /\ k \in 1 .. Len(m_objects)
    /\ ~m_objects[k].done[slaposIndexSlices]
    /\ \A s \in Steps : s < slaposIndexSlices => m_objects[k].done[s]
    /\ m_objects' = [m_objects EXCEPT
                        ![k].m_slice_index = index_slices(m_objects[k]),
                        ![k].done[slaposIndexSlices] = TRUE]
    /\ UNCHANGED <<guiVars, s_auto_extruder_id, stepVars, modelVars, m_model, m_pdone, stop, pending, bgPc,
                   outcome, lastApply, lastChanged>>

\* The heights of the slices of one slice array, from the bottom up: no two
\* slices of an array are taken at the same height level.
RECURSIVE SlicesAt(_, _)
SlicesAt(heights, from) ==
    IF \A h \in heights : h < from THEN << >>
    ELSE LET h == CHOOSE x \in heights : x >= from /\ \A y \in heights : y >= from => x <= y
         IN  << h >> \o SlicesAt(heights, h + 1)

SliceArrays ==
    { SlicesAt(heights, 0) :
         heights \in { S \in SUBSET Heights :
                          \A a, b \in S : a # b => quantized(a) # quantized(b) } }

\* A print object whose slicing steps are done and whose slices are not
\* indexed yet.
SlicedPrintObject(id, model_slices, support_slices) ==
    [id     |-> id,
     done   |-> [s \in Steps |-> s < slaposIndexSlices],
     res    |-> [s \in Steps |-> 0],
     rstep  |-> NotRunning,
     rphase |-> 0,
     m_model_slices |-> model_slices,
     support_slices |-> support_slices,
     m_slice_index  |-> << >>]

InitIndex ==
    /\ GuiIdle
    /\ s_auto_extruder_id = 1
    /\ StepsIdle
    /\ ModelIdle
    /\ m_model = << 1 >>
    /\ m_pdone = [p \in PrintSteps |-> FALSE]
    /\ stop = FALSE
    /\ pending = FALSE
    /\ bgPc = "idle"
    /\ outcome = "none"
    /\ lastApply = "none"
    /\ lastChanged = {}
    /\ \E model_slices \in SliceArrays, support_slices \in SliceArrays :
          m_objects = << SlicedPrintObject(1, model_slices, support_slices) >>

NextIndex == \E k \in 1 .. Len(m_objects) : SLAPrintObject_index_slices(k)

\* A sliced print object and the index of its slices.
SpecIndex == InitIndex /\ [][NextIndex]_vars

(***************************************************************************)
(* The support generation engine (SLASupportTree.hpp:74-158).  A support   *)
(* point is a column and a height on the mesh; the supports are pillars    *)
(* from the bed up to their points.                                        *)
(***************************************************************************)
\* The columns support points may stand in.
MaxColumn == 2

\* The heights of the meshes supports are generated for.
MeshHeights == {2, 4}

\* The support anchor locations on a mesh of the height.
Anchors(height) ==
    { [x |-> x, z |-> z] : x \in 1 .. MaxColumn, z \in { h \in 1 .. height : h % 2 = 0 } }

\* The pillars of a point set, in the order of their columns and heights.
RECURSIVE pillars_of(_)
pillars_of(pts) ==
    IF pts = {} THEN << >>
    ELSE LET p == CHOOSE a \in pts :
                     \A b \in pts : a.x < b.x \/ (a.x = b.x /\ a.z <= b.z)
         IN  << [x |-> p.x, lo |-> 0, hi |-> p.z] >> \o pillars_of(pts \ {p})

\* A bug variant: a base under the object whatever the points.
pillars_with_base(pts) == << [x |-> 0, lo |-> 0, hi |-> 2] >> \o pillars_of(pts)

\* The primitives a finished tree consists of.
tree_primitives(pts) == pillars_of(pts)

\* SLASupportTree::merged_mesh: the whole mesh, without the pad.
merged_mesh(tree) == [k \in 1 .. Len(tree.primitives) |->
                         << tree.primitives[k].lo, tree.primitives[k].hi >>]

\* The cross-section of the supports at a height: the columns with a pillar
\* through it.
support_layer(tree, h) ==
    { tree.primitives[k].x : k \in { j \in 1 .. Len(tree.primitives) :
                                        tree.primitives[j].lo <= h /\ h < tree.primitives[j].hi } }

\* SLASupportTree::slice: one layer per height from the first layer up to
\* the full height, layerh apart.
RECURSIVE slice_from(_, _, _)
slice_from(tree, h, layerh) ==
    IF h >= tree.full_height THEN << >>
    ELSE << support_layer(tree, h) >> \o slice_from(tree, h + layerh, layerh)

slice(tree, layerh, init_layerh) ==
    slice_from(tree, IF init_layerh < 0 THEN layerh ELSE init_layerh, layerh)

\* SLASupportTree::SLASupportTree(pts, mesh, cfg, ctl) and generate: the
\* stop condition is polled between the phases; a stopped generation raises
\* SLASupportsStoppedException and leaves no tree.
SLASupportTree_generate(pts, height, stopcondition) ==
    /\ ret = NoCall
    /\ pts \subseteq Anchors(height)
    /\ ret' = IF stopcondition
              THEN [op |-> "generate", pts |-> pts, stopped |-> TRUE, outcome |-> "cancelled"]
              ELSE [op |-> "generate", pts |-> pts, stopped |-> FALSE, outcome |-> "returned",
                    tree |-> [primitives |-> tree_primitives(pts), full_height |-> height]]
    /\ UNCHANGED <<guiVars, s_auto_extruder_id, stepVars, pipeVars, s_last_id, materials, objects>>

\* SLASupportTree::slice on the generated tree.
SLASupportTree_slice(layerh, init_layerh) ==
    /\ ret.op = "generate"
    /\ ret.outcome = "returned"
    /\ ret' = [op |-> "slice", pts |-> ret.pts, stopped |-> FALSE,
               outcome |-> "returned", tree |-> ret.tree,
               layerh |-> layerh, init_layerh |-> init_layerh,
               layers |-> slice(ret.tree, layerh, init_layerh)]
    /\ UNCHANGED <<guiVars, s_auto_extruder_id, stepVars, pipeVars, s_last_id, materials, objects>>

InitSupports ==
    /\ GuiIdle
    /\ s_auto_extruder_id = 1
    /\ PipeIdle
    /\ StepsIdle
    /\ ModelIdle

NextSupports ==
    \/ \E height \in MeshHeights, stopcondition \in BOOLEAN :
          \E pts \in SUBSET Anchors(height) : SLASupportTree_generate(pts, height, stopcondition)
    \/ \E layerh \in {1, 2}, init_layerh \in {0 - 1, 1} : SLASupportTree_slice(layerh, init_layerh)

\* Support trees generated for drawn point sets, and their slices.
SpecSupports == InitSupports /\ [][NextSupports]_vars

(***************************************************************************)
(* Model::read_from_file and Model::read_from_archive (Model.cpp:76-147).  *)
(* A file name is the sequence of its characters.                          *)
(***************************************************************************)
\* The objects a loader may put into the model.
MaxLoaded == 2

UpperCase == << "A", "F", "I", "L", "M", "P", "S", "T", "Z" >>
LowerCase == << "a", "f", "i", "l", "m", "p", "s", "t", "z" >>

to_lower(c) ==
    IF \E k \in 1 .. Len(UpperCase) : UpperCase[k] = c
    THEN LowerCase[CHOOSE k \in 1 .. Len(UpperCase) : UpperCase[k] = c]
    ELSE c

\* boost::algorithm::iequals on the part of input that starts at from.
imatches_at(input, test, from) ==
    /\ from >= 1
    /\ from + Len(test) - 1 <= Len(input)
    /\ \A k \in 1 .. Len(test) : to_lower(input[from + k - 1]) = to_lower(test[k])

\* boost::algorithm::iends_with
iends_with(input, test) == imatches_at(input, test, Len(input) - Len(test) + 1)

\* boost::ireplace_last_copy
ireplace_last_copy(input, search, format) ==
    IF \E from \in 1 .. Len(input) : imatches_at(input, search, from)
    THEN LET last == CHOOSE from \in 1 .. Len(input) :
                        /\ imatches_at(input, search, from)
                        /\ \A later \in (from + 1) .. Len(input) : ~imatches_at(input, search, later)
         IN  SubSeq(input, 1, last - 1) \o format \o SubSeq(input, last + Len(search), Len(input))
    ELSE input

ext_stl     == << ".", "s", "t", "l" >>
ext_obj     == << ".", "o", "b", "j" >>
ext_amf     == << ".", "a", "m", "f" >>
ext_amf_xml == << ".", "a", "m", "f", ".", "x", "m", "l" >>
ext_zip_amf == << ".", "z", "i", "p", ".", "a", "m", "f" >>
ext_3mf     == << ".", "3", "m", "f" >>
ext_prusa   == << ".", "p", "r", "u", "s", "a" >>

\* The loader Model::read_from_file hands the file to; "none" if it throws
\* for the unknown format.
file_loader(input_file) ==
    IF iends_with(input_file, ext_stl) THEN "load_stl"
    ELSE IF iends_with(input_file, ext_obj) THEN "load_obj"
    ELSE IF ~iends_with(input_file, ext_zip_amf)
            /\ (iends_with(input_file, ext_amf) \/ iends_with(input_file, ext_amf_xml))
         THEN "load_amf"
    ELSE IF iends_with(input_file, ext_3mf) THEN "load_3mf"
    ELSE IF iends_with(input_file, ext_prusa) THEN "load_prus"
    ELSE "none"

\* The same for Model::read_from_archive.
archive_loader(input_file) ==
    IF iends_with(input_file, ext_3mf) THEN "load_3mf"
    ELSE IF iends_with(input_file, ext_zip_amf) THEN "load_amf"
    ELSE "none"

\* A loader's work on the fresh model: objects with or without an instance,
\* the IDs handed out in the order of construction.
RECURSIVE loaded_from(_, _, _)
loaded_from(with_instance, k, last_id) ==
    IF k > Len(with_instance) THEN << >>
    ELSE LET o == [NewModelObject(last_id + 1) EXCEPT
                      !.instances = IF with_instance[k]
                                    THEN << NewModelInstance(last_id + 2) >> ELSE << >>]
         IN  << o @@ [input_file |-> << >>] >>
                \o loaded_from(with_instance, k + 1, last_id + (IF with_instance[k] THEN 2 ELSE 1))

\* A bug variant: the objects are left without instances.
add_default_instances_skipped(objs, last_id) == objs

\* Model::add_default_instances: an instance for every object that has none.
RECURSIVE add_default_instances(_, _)
add_default_instances(objs, last_id) ==
    IF objs = << >> THEN << >>
    ELSE IF objs[1].instances = << >>
         THEN << [objs[1] EXCEPT !.instances = << NewModelInstance(last_id + 1) >>] >>
                 \o add_default_instances(Tail(objs), last_id + 1)
         ELSE << objs[1] >> \o add_default_instances(Tail(objs), last_id)

model_add_default_instances(objs, last_id) == add_default_instances(objs, last_id)

NumWithoutInstance(objs) ==
    Cardinality({ k \in 1 .. Len(objs) : objs[k].instances = << >> })

NumEntities(objs) ==
    Len(objs) + Cardinality({ k \in 1 .. Len(objs) : objs[k].instances # << >> })

\* The body shared by the two readers once the loader is chosen; loaded and
\* result are what the loader made of the file.
read_model(op, loader, input_file, object_file, loaded, result, add_default) ==
    LET call == [op |-> op, input_file |-> input_file, add_default_instances |-> add_default,
                 loader |-> loader, result |-> result, loaded |-> loaded]
        named == [k \in 1 .. Len(loaded) |-> [loaded[k] EXCEPT !.input_file = object_file]]
        last_id == s_last_id + NumEntities(loaded)
    IN  IF loader = "none" \/ ~result \/ loaded = << >>
        THEN /\ ret' = call @@ [outcome |-> "runtime_error"]
             /\ s_last_id' = IF loader = "none" THEN s_last_id ELSE last_id
             /\ UNCHANGED objects
        ELSE /\ ret' = call @@ [outcome |-> "returned"]
             /\ objects' = IF add_default
                           THEN model_add_default_instances(named, last_id) ELSE named
             /\ s_last_id' = last_id + (IF add_default THEN NumWithoutInstance(loaded) ELSE 0)

Model_read_from_file(input_file, with_instance, result, add_default) ==
    LET loader == file_loader(input_file)
        loaded == IF loader = "none" THEN << >> ELSE loaded_from(with_instance, 1, s_last_id)
    IN  /\ ret = NoCall
        /\ read_model("read_from_file", loader, input_file, input_file,
                      loaded, result, add_default)
        /\ UNCHANGED <<guiVars, s_auto_extruder_id, stepVars, pipeVars, materials>>

Model_read_from_archive(input_file, with_instance, result, add_default) ==
    LET loader == archive_loader(input_file)
        loaded == IF loader = "none" THEN << >> ELSE loaded_from(with_instance, 1, s_last_id)
        object_file == IF iends_with(input_file, ext_zip_amf)
                       THEN ireplace_last_copy(input_file, << ".", "z", "i", "p", "." >>, << "." >>)
                       ELSE input_file
    IN  /\ ret = NoCall
        /\ read_model("read_from_archive", loader, input_file, object_file,
                      loaded, result, add_default)
        /\ UNCHANGED <<guiVars, s_auto_extruder_id, stepVars, pipeVars, materials>>

\* The names of the files handed to the readers.
InputFiles ==
    { << >>, << "a" >>, << "a" >> \o ext_stl, << "a", ".", "S", "T", "L" >>,
      << "a" >> \o ext_obj, << "a" >> \o ext_amf, << "a" >> \o ext_amf_xml,
      << "a" >> \o ext_zip_amf, << "a", ".", "Z", "I", "P", ".", "a", "m", "f" >>,
      << "a" >> \o ext_3mf, << "a" >> \o ext_prusa, << "a" >> \o ext_stl \o << ".", "t", "x", "t" >> }

InitLoad ==
    /\ GuiIdle
    /\ s_auto_extruder_id = 1
    /\ PipeIdle
    /\ StepsIdle
    /\ ModelIdle

NextLoad ==
    \/ \E input_file \in InputFiles, with_instance \in SeqsFromZeroUpTo(BOOLEAN, MaxLoaded),
          result \in BOOLEAN, add_default \in BOOLEAN :
          Model_read_from_file(input_file, with_instance, result, add_default)
    \/ \E input_file \in InputFiles, with_instance \in SeqsFromZeroUpTo(BOOLEAN, MaxLoaded),
          result \in BOOLEAN, add_default \in BOOLEAN :
          Model_read_from_archive(input_file, with_instance, result, add_default)

\* One file read into a fresh Model.
SpecLoad == InitLoad /\ [][NextLoad]_vars

(***************************************************************************)
(* The SLA support points gizmo (GLGizmo.cpp:175-182, 1776-1790,           *)
(* 1969-2136), with ENABLE_SLA_SUPPORT_GIZMO_MOD.  A mouse position is the *)
(* coordinate its ray passes the mesh at.                                  *)
(***************************************************************************)
\* The most support points an object is given.
MaxPoints == 2

MousePositions == {0, 2, 6}

\* UpdateData::mouse_pos when the update carries none.
NoMousePos == 0 - 100

\* The ModelObject the gizmo works on.
GizmoObject == objects[sla_gizmo.m_model_object]

\* The last call of the gizmo ended the program.
GizmoCrashed == ret.op # "none" /\ ret.outcome = "crashed"

\* GLGizmoSlaSupports::update_mesh: the mesh is taken from the object, the
\* grabbers are reloaded from its support points.
update_mesh(g, o) ==
    [g EXCEPT !.m_V = raw_mesh(o),
              !.m_grabbers = [k \in 1 .. Len(o.sla_support_points) |-> o.sla_support_points[k]]]

\* AABB::intersect_ray on the loaded mesh.
intersect_ray(V, point) == \E k \in 1 .. Len(V) : V[k][1] <= point /\ point <= V[k][2]

\* GLGizmoSlaSupports::unproject_on_mesh: the gizmo as the call leaves it,
\* and the point hit or the exception.
unproject_on_mesh(g, o, mouse_pos) ==
    LET loaded == IF Len(g.m_V) = 0 THEN update_mesh(g, o) ELSE g
        point  == mouse_pos - o.instances[1].offset
    IN  [gizmo   |-> loaded,
         outcome |-> IF intersect_ray(loaded.m_V, point) THEN "returned" ELSE "invalid_argument",
         new_pos |-> point]

\* A bug variant: the point is taken whether the ray hits or not.
unproject_unchecked(g, o, mouse_pos) ==
    [unproject_on_mesh(g, o, mouse_pos) EXCEPT !.outcome = "returned"]

try_unproject_on_mesh(g, o, mouse_pos) == unproject_on_mesh(g, o, mouse_pos)

\* GLGizmoBase::set_hover_id
GLGizmoBase_set_hover_id(id) ==
    /\ sla_gizmo.m_state = "On"
    /\ ~GizmoCrashed
    /\ sla_gizmo' = IF sla_gizmo.m_grabbers = << >> \/ id < Len(sla_gizmo.m_grabbers)
                    THEN [sla_gizmo EXCEPT !.m_hover_id = id]
                    ELSE sla_gizmo
    /\ ret' = [op |-> "set_hover_id", outcome |-> "returned", posted |-> FALSE]
    /\ UNCHANGED <<cut_gizmo, s_auto_extruder_id, stepVars, pipeVars, s_last_id, materials, objects>>

\* GLGizmoSlaSupports::clicked_on_object
GLGizmoSlaSupports_clicked_on_object(mouse_position, instance_id) ==
    LET g0 == sla_gizmo
        something_selected == g0.m_old_instance_id # 0 - 1
        g  == [g0 EXCEPT !.m_old_instance_id = instance_id]
        u  == try_unproject_on_mesh(g, GizmoObject, mouse_position)
        call == [op |-> "clicked_on_object", mouse_position |-> mouse_position]
    IN  /\ sla_gizmo.m_state = "On"
        /\ ~GizmoCrashed
        /\ IF (g0.m_old_instance_id # instance_id /\ something_selected) \/ instance_id = 0 - 1
           THEN /\ sla_gizmo' = g
                /\ ret' = call @@ [outcome |-> "returned", unprojected |-> "none", posted |-> FALSE]
                /\ UNCHANGED objects
           ELSE IF u.outcome # "returned"
           THEN /\ sla_gizmo' = u.gizmo
                /\ ret' = call @@ [outcome |-> "returned", unprojected |-> u.outcome, posted |-> FALSE]
                /\ UNCHANGED objects
           ELSE /\ Len(GizmoObject.sla_support_points) < MaxPoints
                /\ sla_gizmo' = [u.gizmo EXCEPT !.m_grabbers = Append(@, u.new_pos)]
                /\ objects' = [objects EXCEPT ![g0.m_model_object].sla_support_points =
                                                 Append(@, u.new_pos)]
                /\ ret' = call @@ [outcome |-> "returned", unprojected |-> u.outcome, posted |-> TRUE]
        /\ UNCHANGED <<cut_gizmo, s_auto_extruder_id, stepVars, pipeVars, s_last_id, materials>>

\* GLGizmoSlaSupports::delete_current_grabber.  Erasing at a position past
\* the end of a list is undefined: the call may end the program, or return
\* with the memory behind the lists damaged, which the lists do not show.
GLGizmoSlaSupports_delete_current_grabber(delete_all) ==
    LET g == sla_gizmo
        h == g.m_hover_id + 1
        points == GizmoObject.sla_support_points
        call == [op |-> "delete_current_grabber", delete_all |-> delete_all, posted |-> TRUE]
        erase(seq) == SubSeq(seq, 1, h - 1) \o SubSeq(seq, h + 1, Len(seq))
    IN  /\ sla_gizmo.m_state = "On"
        /\ ~GizmoCrashed
        /\ IF delete_all
           THEN /\ sla_gizmo' = [g EXCEPT !.m_grabbers = << >>]
                /\ objects' = [objects EXCEPT ![g.m_model_object].sla_support_points = << >>]
                /\ ret' = call @@ [outcome |-> "returned"]
           ELSE IF g.m_hover_id = 0 - 1
           THEN /\ ret' = call @@ [outcome |-> "returned"]
                /\ UNCHANGED <<sla_gizmo, objects>>
           ELSE IF h \in 1 .. Len(g.m_grabbers) /\ h \in 1 .. Len(points)
           THEN /\ sla_gizmo' = [g EXCEPT !.m_grabbers = erase(@), !.m_hover_id = 0 - 1]
                /\ objects' = [objects EXCEPT ![g.m_model_object].sla_support_points = erase(@)]
                /\ ret' = call @@ [outcome |-> "returned"]
           ELSE /\ \E how \in {"crashed", "out_of_bounds"} : ret' = call @@ [outcome |-> how]
                /\ sla_gizmo' = [g EXCEPT !.m_hover_id = 0 - 1]
                /\ UNCHANGED objects
        /\ UNCHANGED <<cut_gizmo, s_auto_extruder_id, stepVars, pipeVars, s_last_id, materials>>

\* GLGizmoBase::update and GLGizmoSlaSupports::on_update.  Writing at a
\* position past the end of a list is undefined, as above.
GLGizmoSlaSupports_on_update(mouse_pos) ==
    LET g == sla_gizmo
        h == g.m_hover_id + 1
        u == try_unproject_on_mesh(g, GizmoObject, mouse_pos)
        call == [op |-> "on_update", mouse_pos |-> mouse_pos, posted |-> FALSE]
    IN  /\ sla_gizmo.m_state = "On"
        /\ ~GizmoCrashed
        /\ IF g.m_hover_id = 0 - 1 \/ mouse_pos = NoMousePos
           THEN /\ ret' = call @@ [outcome |-> "returned", unprojected |-> "none"]
                /\ UNCHANGED <<sla_gizmo, objects>>
           ELSE IF u.outcome # "returned"
           THEN /\ sla_gizmo' = u.gizmo
                /\ ret' = call @@ [outcome |-> "returned", unprojected |-> u.outcome]
                /\ UNCHANGED objects
           ELSE IF h \in 1 .. Len(u.gizmo.m_grabbers) /\ h \in 1 .. Len(GizmoObject.sla_support_points)
           THEN /\ sla_gizmo' = [u.gizmo EXCEPT !.m_grabbers[h] = u.new_pos]
                /\ objects' = [objects EXCEPT ![g.m_model_object].sla_support_points[h] = u.new_pos]
                /\ ret' = call @@ [outcome |-> "returned", unprojected |-> u.outcome]
           ELSE /\ \E how \in {"crashed", "out_of_bounds"} :
                      ret' = call @@ [outcome |-> how, unprojected |-> u.outcome]
                /\ sla_gizmo' = u.gizmo
                /\ UNCHANGED objects
        /\ UNCHANGED <<cut_gizmo, s_auto_extruder_id, stepVars, pipeVars, s_last_id, materials>>

\* GLGizmoSlaSupports::update_mesh, as set_sla_support_data calls it.
GLGizmoSlaSupports_update_mesh ==
    /\ sla_gizmo.m_state = "On"
    /\ ~GizmoCrashed
    /\ sla_gizmo' = update_mesh(sla_gizmo, GizmoObject)
    /\ ret' = [op |-> "update_mesh", outcome |-> "returned", posted |-> FALSE]
    /\ UNCHANGED <<cut_gizmo, s_auto_extruder_id, stepVars, pipeVars, s_last_id, materials, objects>>

\* The objects the gizmo is opened on: with or without a model part, one
\* instance, support points from an earlier session.
GizmoObjects ==
    { SourceObject(1, vs, << [NewModelInstance(0) EXCEPT !.offset = offset] >>)
         @@ [sla_support_points |-> points] :
         vs \in {<< DefaultVolume >>, << [DefaultVolume EXCEPT !.type = "PARAMETER_MODIFIER"] >>},
         offset \in {0, 2},
         points \in SeqsFromZeroUpTo({0, 4}, MaxPoints - 1) }

\* The gizmo switched on for an object: GLGizmoSlaSupports::set_sla_support_data
\* has loaded the mesh and the grabbers.
InitSlaGizmo ==
    /\ s_auto_extruder_id = 1
    /\ cut_gizmo = NewGLGizmoCut
    /\ PipeIdle
    /\ StepsIdle
    /\ ret = NoCall
    /\ materials = <<>>
    /\ \E o \in GizmoObjects, m_old_instance_id \in {0 - 1, 0} :
          /\ objects = << o >>
          /\ s_last_id = 1 + Len(o.volumes) + Len(o.instances)
          /\ sla_gizmo = update_mesh(
                [NewGLGizmoSlaSupports EXCEPT !.m_state = "On", !.m_model_object = 1]
                   @@ [m_old_instance_id |-> m_old_instance_id], o)

NextSlaGizmo ==
    \/ \E id \in (0 - 1) .. MaxPoints : GLGizmoBase_set_hover_id(id)
    \/ \E mouse_position \in MousePositions, instance_id \in {0 - 1, 0} :
          GLGizmoSlaSupports_clicked_on_object(mouse_position, instance_id)
    \/ \E mouse_pos \in MousePositions \cup {NoMousePos} : GLGizmoSlaSupports_on_update(mouse_pos)
    \/ \E delete_all \in BOOLEAN : GLGizmoSlaSupports_delete_current_grabber(delete_all)
    \/ GLGizmoSlaSupports_update_mesh

\* The SLA support points gizmo at work on a drawn object.
SpecSlaGizmo == InitSlaGizmo /\ [][NextSlaGizmo]_vars

(***************************************************************************)
(* ModelObject::check_instances_print_volume_state (Model.cpp:1231-1261)   *)
(* called on a drawn object.                                               *)
(***************************************************************************)
\* The print volumes the instances are checked against.
PrintVolumeBoxes ==
    { [defined |-> TRUE, min |-> 0, max |-> 8],
      [defined |-> TRUE, min |-> 0 - 4, max |-> 4],
      [defined |-> TRUE, min |-> 6, max |-> 16] }

\* ModelObject::check_instances_print_volume_state: every instance is given
\* its state, and the number of printable instances is returned.
ModelObject_check_instances_print_volume_state(idx, print_volume) ==
    LET r == check_instances_print_volume_state(objects[idx], print_volume)
    IN  /\ ret' = [op |-> "check_instances_print_volume_state", idx |-> idx,
                   print_volume |-> print_volume,
                   print_volume_state |-> r.states, res |-> r.num_printable]
        /\ UNCHANGED <<guiVars, s_auto_extruder_id, stepVars, pipeVars, s_last_id, materials, objects>>

NextPrintVolume ==
    \E idx \in ObjIdx, print_volume \in PrintVolumeBoxes :
       ModelObject_check_instances_print_volume_state(idx, print_volume)

\* A drawn object and the states its instances are given.
SpecPrintVolume == InitQuery /\ [][NextPrintVolume]_vars

(***************************************************************************)
(* The cut gizmo (GLGizmo.cpp:2277-2482), on while an instance is          *)
(* selected.  Heights are doubles in the code and integers here.           *)
(***************************************************************************)
\* The Z sizes of the bounding box of the selection.
SelectionHeights == {4, 8}

\* The heights typed into the input window and the projections of a drag.
TypedHeights == {0 - 2, 2, 6, 10}
Projections == {0 - 6, 2, 6}

\* GLGizmoCut::set_cut_z: the plane is clamped to m_max_z.
set_cut_z(g, cut_z) == [g EXCEPT !.m_cut_z = Max2(0, Min2(g.m_max_z, cut_z))]

\* A bug variant: the height is taken as it comes.
set_cut_z_unclamped(g, cut_z) == [g EXCEPT !.m_cut_z = cut_z]

\* GLGizmoCut::update_max_z
update_max_z(g, selection_size_z) ==
    set_cut_z([g EXCEPT !.m_max_z = selection_size_z], g.m_cut_z)

\* GLGizmoBase::set_state with GLGizmoCut::on_set_state: the plane is put at
\* half the height of the selection on activation.  The selection changes
\* while the gizmo is off only.
GLGizmoCut_on_set_state(state, selection_size_z) ==
    /\ cut_gizmo.m_state # state
    /\ cut_gizmo' = IF state = "On"
                    THEN [cut_gizmo EXCEPT !.m_state = state, !.selection_size_z = selection_size_z,
                                           !.m_cut_z = selection_size_z \div 2]
                    ELSE [cut_gizmo EXCEPT !.m_state = state, !.m_dragging = FALSE]
    /\ ret' = [op |-> "on_set_state", state |-> state]
    /\ UNCHANGED <<sla_gizmo, s_auto_extruder_id, stepVars, pipeVars, s_last_id, materials, objects>>

\* GLGizmoBase::set_hover_id on the cut gizmo, which has one grabber.
GLGizmoCut_set_hover_id(id) ==
    /\ cut_gizmo.m_state = "On"
    /\ ~cut_gizmo.m_dragging
    /\ cut_gizmo' = IF cut_gizmo.m_grabbers = << >> \/ id < Len(cut_gizmo.m_grabbers)
                    THEN [cut_gizmo EXCEPT !.m_hover_id = id]
                    ELSE cut_gizmo
    /\ ret' = [op |-> "set_hover_id"]
    /\ UNCHANGED <<sla_gizmo, s_auto_extruder_id, stepVars, pipeVars, s_last_id, materials, objects>>

\* GLGizmoBase::start_dragging with GLGizmoCut::on_start_dragging
GLGizmoCut_on_start_dragging ==
    /\ cut_gizmo.m_state = "On"
    /\ ~cut_gizmo.m_dragging
    /\ cut_gizmo' = IF cut_gizmo.m_hover_id = 0 - 1
                    THEN [cut_gizmo EXCEPT !.m_dragging = TRUE]
                    ELSE update_max_z([cut_gizmo EXCEPT !.m_dragging = TRUE, !.m_start_z = cut_gizmo.m_cut_z],
                                      cut_gizmo.selection_size_z)
    /\ ret' = [op |-> "on_start_dragging"]
    /\ UNCHANGED <<sla_gizmo, s_auto_extruder_id, stepVars, pipeVars, s_last_id, materials, objects>>

\* GLGizmoBase::stop_dragging
GLGizmoCut_stop_dragging ==
    /\ cut_gizmo.m_state = "On"
    /\ cut_gizmo.m_dragging
    /\ cut_gizmo' = [cut_gizmo EXCEPT !.m_dragging = FALSE]
    /\ ret' = [op |-> "stop_dragging"]
    /\ UNCHANGED <<sla_gizmo, s_auto_extruder_id, stepVars, pipeVars, s_last_id, materials, objects>>

\* GLGizmoBase::update with GLGizmoCut::on_update: the plane follows the
\* grabber.
GLGizmoCut_on_update(projection) ==
    /\ cut_gizmo.m_state = "On"
    /\ cut_gizmo.m_dragging
    /\ cut_gizmo.m_hover_id # 0 - 1
    /\ cut_gizmo' = set_cut_z(cut_gizmo, cut_gizmo.m_start_z + projection)
    /\ ret' = [op |-> "on_update"]
    /\ UNCHANGED <<sla_gizmo, s_auto_extruder_id, stepVars, pipeVars, s_last_id, materials, objects>>

\* GLGizmoCut::on_render
GLGizmoCut_on_render ==
    /\ cut_gizmo.m_state = "On"
    /\ cut_gizmo' = update_max_z(cut_gizmo, cut_gizmo.selection_size_z)
    /\ ret' = [op |-> "on_render"]
    /\ UNCHANGED <<sla_gizmo, s_auto_extruder_id, stepVars, pipeVars, s_last_id, materials, objects>>

\* GLGizmoCut::perform_cut: what is handed to Plater::cut.
perform_cut(g) ==
    [op |-> "perform_cut", z |-> g.m_cut_z, keep_upper |-> g.m_keep_upper,
     keep_lower |-> g.m_keep_lower, rotate_lower |-> g.m_rotate_lower]

\* GLGizmoCut::on_render_input_window: the input field and the checkboxes
\* write the members they are bound to, and the button performs the cut.
GLGizmoCut_on_render_input_window(value_changed, value, keep_upper, keep_lower, rotate_lower, cut_clicked) ==
    /\ cut_gizmo.m_state = "On"
    /\ cut_gizmo' = [cut_gizmo EXCEPT !.m_cut_z = IF value_changed THEN value ELSE @,
                                      !.m_keep_upper = keep_upper,
                                      !.m_keep_lower = keep_lower,
                                      !.m_rotate_lower = rotate_lower]
    /\ ret' = IF cut_clicked THEN perform_cut(cut_gizmo')
              ELSE [op |-> "on_render_input_window"]
    /\ UNCHANGED <<sla_gizmo, s_auto_extruder_id, stepVars, pipeVars, s_last_id, materials, objects>>

\* The gizmo after GLGizmoCut::on_init, off.
InitCutGizmo ==
    /\ s_auto_extruder_id = 1
    /\ sla_gizmo = NewGLGizmoSlaSupports
    /\ PipeIdle
    /\ StepsIdle
    /\ ModelIdle
    /\ cut_gizmo = [NewGLGizmoCut EXCEPT !.m_grabbers = << 0 >>]
                      @@ [m_dragging |-> FALSE, selection_size_z |-> 0]

NextCutGizmo ==
    \/ \E state \in {"Off", "On"}, selection_size_z \in SelectionHeights :
          GLGizmoCut_on_set_state(state, selection_size_z)
    \/ \E id \in {0 - 1, 0} : GLGizmoCut_set_hover_id(id)
    \/ GLGizmoCut_on_start_dragging
    \/ GLGizmoCut_stop_dragging
    \/ \E projection \in Projections : GLGizmoCut_on_update(projection)
    \/ GLGizmoCut_on_render
    \/ \E value_changed \in BOOLEAN, value \in TypedHeights, keep_upper \in BOOLEAN,
          keep_lower \in BOOLEAN, rotate_lower \in BOOLEAN, cut_clicked \in BOOLEAN :
          GLGizmoCut_on_render_input_window(value_changed, value, keep_upper, keep_lower,
                                            rotate_lower, cut_clicked)

SpecCutGizmo == InitCutGizmo /\ [][NextCutGizmo]_vars

(***************************************************************************)
(* The process-wide auto-extruder counter (Model.cpp:22, 521-545).         *)
(***************************************************************************)
\* The width of unsigned int, scaled down.
UIntBits == 4
UINT_MAX == 2 ^ UIntBits - 1

\* The calls of get_auto_extruder_id counted since the last reset.
MaxCalls == UINT_MAX + 3

\* Model::get_auto_extruder_id: the ID returned and the counter left.
get_auto_extruder_id(counter, max_extruders) ==
    IF counter > max_extruders
       THEN [id |-> 1, s_auto_extruder_id |-> 1]
    ELSE LET incremented == (counter + 1) % (2 ^ UIntBits)
         IN  [id |-> counter,
              s_auto_extruder_id |-> IF incremented > max_extruders THEN 1 ELSE incremented]

\* The calls since the last reset: how many, and with which max_extruders if
\* with one and the same (0 - 1 once it varied).
NoCallsYet == [calls |-> 0, max_extruders |-> 0 - 1]

CallsAfter(run, max_extruders) ==
    [calls |-> run.calls + 1,
     max_extruders |-> IF run.calls = 0 \/ run.max_extruders = max_extruders
                       THEN max_extruders ELSE 0 - 1]

CallsSinceReset == IF "run" \in DOMAIN ret THEN ret.run ELSE NoCallsYet

\* Model::reset_auto_extruder_id
Model_reset_auto_extruder_id ==
    /\ s_auto_extruder_id' = 1
    /\ ret' = [op |-> "reset_auto_extruder_id", run |-> NoCallsYet]
    /\ UNCHANGED <<guiVars, stepVars, pipeVars, s_last_id, materials, objects>>

\* Model::get_auto_extruder_id
Model_get_auto_extruder_id(max_extruders) ==
    LET r == get_auto_extruder_id(s_auto_extruder_id, max_extruders)
    IN  /\ CallsSinceReset.calls < MaxCalls
        /\ s_auto_extruder_id' = r.s_auto_extruder_id
        /\ ret' = [op |-> "get_auto_extruder_id", max_extruders |-> max_extruders,
                   res |-> r.id, run |-> CallsAfter(CallsSinceReset, max_extruders)]
        /\ UNCHANGED <<guiVars, stepVars, pipeVars, s_last_id, materials, objects>>

\* The counter as the program starts.
InitExtruder == PipeIdle /\ StepsIdle /\ ModelIdle /\ GuiIdle /\ s_auto_extruder_id = 1

NextExtruder ==
    \/ Model_reset_auto_extruder_id
    \/ \E max_extruders \in 0 .. UINT_MAX : Model_get_auto_extruder_id(max_extruders)

SpecExtruder == InitExtruder /\ [][NextExtruder]_vars

(***************************************************************************)
(* model_volume_list_changed (Model.cpp:1655-1694) on an old and a new     *)
(* ModelObject.                                                            *)
(***************************************************************************)
\* ModelVolume::get_matrix: the factor and the translation along the axis.
volume_get_matrix(v) == << v.scaling_factor * v.mirror, v.offset >>

\* Transform3d::isApprox: equality up to a relative precision far below the
\* unit of the coordinates here.
isApprox(a, b) == a = b

\* A bug variant: the rest of a list is not looked at.
no_volume_of_type_from(vs, i, type) == FALSE

\* The two loops after the walk: a volume of the type is left in a list.
volume_of_type_from(vs, i, type) == \E k \in i .. Len(vs) : vs[k].type = type

\* The walk down both lists, from i_old and i_new on.
RECURSIVE volume_list_changed_from(_, _, _, _, _)
volume_list_changed_from(vs_old, vs_new, type, i_old, i_new) ==
    IF i_old <= Len(vs_old) /\ i_new <= Len(vs_new)
       THEN IF vs_old[i_old].type # type
               THEN volume_list_changed_from(vs_old, vs_new, type, i_old + 1, i_new)
            ELSE IF vs_new[i_new].type # type
               THEN volume_list_changed_from(vs_old, vs_new, type, i_old, i_new + 1)
            ELSE IF vs_old[i_old].id # vs_new[i_new].id THEN TRUE
            ELSE IF ~isApprox(volume_get_matrix(vs_old[i_old]), volume_get_matrix(vs_new[i_new]))
               THEN TRUE
            ELSE volume_list_changed_from(vs_old, vs_new, type, i_old + 1, i_new + 1)
    ELSE volume_of_type_from(vs_old, i_old, type) \/ volume_of_type_from(vs_new, i_new, type)

model_volume_list_changed(model_object_old, model_object_new, type) ==
    volume_list_changed_from(model_object_old.volumes, model_object_new.volumes, type, 1, 1)

\* The volumes of the two objects: IDs are shared between the old and the
\* new object.
ListedVolumes ==
    { [DefaultVolume EXCEPT !.id = id, !.type = type, !.offset = offset] :
         id \in {2, 3}, type \in {"MODEL_PART", "PARAMETER_MODIFIER"}, offset \in {0, 2} }

\* The old object and the new one, of the same ID.
InitVolumeList ==
    /\ GuiIdle
    /\ s_auto_extruder_id = 1
    /\ PipeIdle
    /\ StepsIdle
    /\ ret = NoCall
    /\ materials = <<>>
    /\ s_last_id = 3
    /\ \E vs_old \in SeqsFromZeroUpTo(ListedVolumes, MaxVolumes),
          vs_new \in SeqsFromZeroUpTo(ListedVolumes, MaxVolumes) :
          objects = << [NewModelObject(1) EXCEPT !.volumes = vs_old],
                       [NewModelObject(1) EXCEPT !.volumes = vs_new] >>

\* model_volume_list_changed called on the two objects.
Call_model_volume_list_changed(type) ==
    /\ ret' = [op |-> "model_volume_list_changed", type |-> type,
               res |-> model_volume_list_changed(objects[1], objects[2], type)]
    /\ UNCHANGED <<guiVars, s_auto_extruder_id, stepVars, pipeVars, s_last_id, materials, objects>>

NextVolumeList ==
    \E type \in {"MODEL_PART", "PARAMETER_MODIFIER"} : Call_model_volume_list_changed(type)

SpecVolumeList == InitVolumeList /\ [][NextVolumeList]_vars

(***************************************************************************)
(* C13 - C15: ModelObject::cut.                                            *)
(***************************************************************************)
\* The mesh of a model part of the source in the frame the cut is made in,
\* and the height of the plane in that frame.
CutFrameMesh(o, sel, v) ==
    mesh_transform(v.mesh, instance_factor(o.instances[sel]) * v.scaling_factor * v.mirror,
                   instance_factor(o.instances[sel]) * v.offset)

CutFrameZ(o, args) == args.z - o.instances[args.instance].offset

RECURSIVE SumOver(_, _, _)
SumOver(seq, f(_), k) == IF k > Len(seq) THEN 0 ELSE f(seq[k]) + SumOver(seq, f, k + 1)

\* The volume of the source's model parts above and below the plane.
VolumeAbove(o, args) ==
    LET above(v) == mesh_volume(mesh_cut_upper(CutFrameMesh(o, args.instance, v), CutFrameZ(o, args)))
    IN  SumOver(ModelPartsOf(o), above, 1)

VolumeBelow(o, args) ==
    LET below(v) == mesh_volume(mesh_cut_lower(CutFrameMesh(o, args.instance, v), CutFrameZ(o, args)))
    IN  SumOver(ModelPartsOf(o), below, 1)

\* The volume of an object's model parts' meshes.
PartsVolume(o) ==
    LET vol(v) == mesh_volume(v.mesh)
    IN  SumOver(ModelPartsOf(o), vol, 1)

\* The objects a cut is to return: the upper half if asked for and not
\* empty, then the lower half if asked for and not empty, told by the
\* volume of their geometry.
ExpectedHalves(o, args) ==
    (IF args.keep_upper /\ VolumeAbove(o, args) > 0 THEN << VolumeAbove(o, args) >> ELSE <<>>)
      \o (IF args.keep_lower /\ VolumeBelow(o, args) > 0 THEN << VolumeBelow(o, args) >> ELSE <<>>)

\* C13: a cut returns no object when neither half is asked for, and
\* otherwise one object per half asked for that has geometry, the upper
\* first; no returned volume has an empty mesh and every returned object
\* has geometry.
C13_CutReturnsNonEmptyHalves ==
    ret.op = "cut" =>
       /\ ret.outcome = "returned"
       /\ Len(ret.res) <= 2
       /\ (~ret.args.keep_upper /\ ~ret.args.keep_lower) => ret.res = <<>>
       /\ [k \in 1 .. Len(ret.res) |-> PartsVolume(ret.res[k])] = ExpectedHalves(ret.before, ret.args)
       /\ \A k \in 1 .. Len(ret.res) :
             /\ PartsVolume(ret.res[k]) > 0
             /\ \A j \in 1 .. Len(ret.res[k].volumes) :
                   mesh_facets_count(ret.res[k].volumes[j].mesh) > 0

PlainSource(o) ==
    \A k \in 1 .. Len(o.volumes) : is_model_part(o.volumes[k]) /\ o.volumes[k].material_id = ""

C13_PlainSources == (ret.op = "cut" /\ PlainSource(ret.before)) => C13_CutReturnsNonEmptyHalves

\* A cube centred on the origin: one model part, untransformed, without a
\* material, whose mesh is one part with the origin at its middle.
IsCentredCube(o) ==
    /\ Len(o.volumes) = 1
    /\ is_model_part(o.volumes[1])
    /\ o.volumes[1].material_id = ""
    /\ VolumeTransform(o.volumes[1]) = <<0, 1, 1>>
    /\ Len(o.volumes[1].mesh) = 1
    /\ bbox_center(mesh_bounding_box(o.volumes[1].mesh)) = 0

CubeHeight(o) == mesh_volume(o.volumes[1].mesh)

\* A cut of a centred cube with one instance at half the cube's height,
\* keeping both halves.
CubeCutAtHalfHeight ==
    /\ ret.op = "cut"
    /\ IsCentredCube(ret.before)
    /\ Len(ret.before.instances) = 1
    /\ 2 * ret.args.z = CubeHeight(ret.before)
    /\ ret.args.keep_upper /\ ret.args.keep_lower

TwoHalvesOfTheCube ==
    /\ ret.outcome = "returned"
    /\ Len(ret.res) = 2
    /\ PartsVolume(ret.res[1]) > 0
    /\ PartsVolume(ret.res[2]) > 0
    /\ PartsVolume(ret.res[1]) + PartsVolume(ret.res[2]) = PartsVolume(ret.before)

\* The instance is not scaled, mirrored or turned over, and its offset
\* lifts the centred cube to rest on the plane z = 0.
InstanceOnBed(o) ==
    /\ instance_factor(o.instances[1]) = 1
    /\ o.instances[1].scaling_factor = 1
    /\ 2 * o.instances[1].offset = CubeHeight(o)

\* C14, as stated: cutting a cube of height H centred on the origin, with
\* one instance, at z = H/2 with both halves kept gives exactly two
\* objects of positive volume whose volumes add up to the cube's.
C14_CutCubeAtHalfHeight == CubeCutAtHalfHeight => TwoHalvesOfTheCube

\* C14, amended: the same when the one instance is untransformed but for a
\* lift of H/2 along the axis, so that the plane z = H/2 passes through the
\* middle of the cube.
C14_CutCubeOnBedAtHalfHeight ==
    (CubeCutAtHalfHeight /\ InstanceOnBed(ret.before)) => TwoHalvesOfTheCube

C14_Witness ==
    /\ CubeCutAtHalfHeight
    /\ InstanceOnBed(ret.before)
    /\ Len(ret.res) = 2
    /\ PartsVolume(ret.res[1]) = 2
    /\ PartsVolume(ret.res[2]) = 2

\* What a cut leaves on instance i of a returned object besides its offset
\* across the axis: the source instance's offset along the axis and its
\* rotation about the axis, no scaling, no mirror, and no other rotation
\* than the half turn rotate_lower asks for.
KeepsPlacementOnly(inst, src, args) ==
    /\ inst.offset = src.offset
    /\ inst.rotation_z = src.rotation_z
    /\ inst.scaling_factor = 1
    /\ inst.mirror = 1
    /\ inst.rotation_xy \in (IF args.rotate_lower THEN {0, 180} ELSE {0})

\* The selected instance's transformation is in the geometry: the returned
\* model parts are untransformed and, when both halves are kept, enclose
\* the volume of the source's parts under that transformation.
BakedIntoGeometry(res, o, args) ==
    /\ \A k \in 1 .. Len(res) : \A j \in 1 .. Len(res[k].volumes) :
          is_model_part(res[k].volumes[j]) =>
             res[k].volumes[j].scaling_factor = 1 /\ res[k].volumes[j].mirror = 1
    /\ (args.keep_upper /\ args.keep_lower) =>
          LET scaled(v) == Abs(instance_factor(o.instances[args.instance]) * v.scaling_factor)
                              * mesh_volume(v.mesh)
              parts(r) == PartsVolume(r)
          IN  SumOver(res, parts, 1) = SumOver(ModelPartsOf(o), scaled, 1)

\* C15, as stated: every instance of every object a cut returns has the
\* translation and the rotation about Z of the source's instance at the
\* same index, and the selected instance's scaling, mirror and other
\* rotation are in the geometry, not on the instances.
C15_CutKeepsInstancePlacement ==
    (ret.op = "cut" /\ ret.outcome = "returned") =>
       /\ \A k \in 1 .. Len(ret.res) :
             /\ Len(ret.res[k].instances) = Len(ret.before.instances)
             /\ \A i \in 1 .. Len(ret.before.instances) :
                   /\ KeepsPlacementOnly(ret.res[k].instances[i], ret.before.instances[i], ret.args)
                   /\ ret.res[k].instances[i].offset_xy = ret.before.instances[i].offset_xy
       /\ BakedIntoGeometry(ret.res, ret.before, ret.args)

\* Whether the upper half is among the returned objects (then it is the
\* first): it was asked for and got a cut mesh or a copy of a modifier.
UpperReturned(o, args) ==
    args.keep_upper /\ (VolumeAbove(o, args) > 0 \/ Len(ModelPartsOf(o)) < Len(o.volumes))

RECURSIVE MaxOver(_, _, _)
MaxOver(seq, f(_), k) == IF k > Len(seq) THEN 0 ELSE Max2(f(seq[k]), MaxOver(seq, f, k + 1))

\* The size across the axis of the box of the lower half's cut meshes under
\* instance i of the source; zero when the lower half is not kept or has
\* no cut mesh.
LowerSizeAcross(o, args, i) ==
    LET width(v) ==
          IF mesh_cut_lower(CutFrameMesh(o, args.instance, v), CutFrameZ(o, args)) = <<>> THEN 0
          ELSE MeshWidth * Abs(instance_factor(o.instances[args.instance]) * v.scaling_factor)
                  * o.instances[i].scaling_factor
    IN  IF args.keep_lower THEN MaxOver(ModelPartsOf(o), width, 1) ELSE 0

\* C15, amended: as stated for the offset along Z, the rotation about Z and
\* the baked transformation; across Z the lower half's instances keep the
\* source's offset and the upper half's instances are moved back by half
\* the size of the lower half's box under the same instance.
C15_CutDisplacesUpperInstances ==
    (ret.op = "cut" /\ ret.outcome = "returned") =>
       /\ \A k \in 1 .. Len(ret.res) :
             /\ Len(ret.res[k].instances) = Len(ret.before.instances)
             /\ \A i \in 1 .. Len(ret.before.instances) :
                   /\ KeepsPlacementOnly(ret.res[k].instances[i], ret.before.instances[i], ret.args)
                   /\ ret.res[k].instances[i].offset_xy =
                         IF k = 1 /\ UpperReturned(ret.before, ret.args)
                         THEN ret.before.instances[i].offset_xy
                                 - (LowerSizeAcross(ret.before, ret.args, i) \div 2)
                         ELSE ret.before.instances[i].offset_xy
       /\ BakedIntoGeometry(ret.res, ret.before, ret.args)

C15_Witness ==
    /\ ret.op = "cut"
    /\ ret.outcome = "returned"
    /\ Len(ret.res) = 2
    /\ Len(ret.before.instances) = 2
    /\ ret.before.instances[1].scaling_factor = 2
    /\ ret.args.instance = 1
    /\ ret.before.instances[2].rotation_z = 90
    /\ ret.res[1].instances[2].rotation_z = 90
    /\ ret.res[1].instances[2].offset_xy < ret.before.instances[2].offset_xy
    /\ ret.res[2].instances[2].offset_xy = ret.before.instances[2].offset_xy
    /\ PartsVolume(ret.res[1]) + PartsVolume(ret.res[2]) = 2 * PartsVolume(ret.before)

(***************************************************************************)
(* C16 - C19: the queries of ModelObject.                                  *)
(***************************************************************************)
\* C16: raw_bounding_box on an object without instances ends with the
\* invalid-argument error, whatever volumes the object holds, and leaves the
\* object as it was.
C16_RawBoundingBoxNeedsInstance ==
    [][\A idx \in ObjIdx :
          (ModelObject_raw_bounding_box(idx) /\ objects[idx].instances = <<>>) =>
             ret'.outcome = "invalid_argument" /\ objects' = objects]_vars

\* The same for the objects that hold a model part.
C16_WithModelPart ==
    [][\A idx \in ObjIdx :
          (ModelObject_raw_bounding_box(idx) /\ objects[idx].instances = <<>>
             /\ ModelPartsOf(objects[idx]) # <<>>) =>
             ret'.outcome = "invalid_argument" /\ objects' = objects]_vars

\* C17: split on an object of one volume whose mesh has k connected parts
\* adds k new objects to the model and puts them in the result list, each
\* with one volume of zero offset and centred geometry, the name and the
\* config of the object, and as many instances as the object; split on an
\* object of several volumes puts only the object itself in the result
\* list and adds nothing to the model.
C17_SplitPerShell ==
    [][\A idx \in ObjIdx : ModelObject_split(idx) =>
          LET o == objects[idx]
              k == Len(mesh_split(o.volumes[1].mesh))
              n == Len(objects)
          IN  /\ Len(o.volumes) = 1 =>
                    /\ Len(objects') = n + k
                    /\ SubSeq(objects', 1, n) = objects
                    /\ ret'.outcome = "returned"
                    /\ ret'.new_objects = [p \in 1 .. k |-> objects'[n + p].id]
                    /\ \A p \in 1 .. k :
                          LET new == objects'[n + p]
                          IN  /\ Len(new.volumes) = 1
                              /\ new.volumes[1].offset = 0
                              /\ bbox_center(mesh_bounding_box(new.volumes[1].mesh)) = 0
                              /\ new.name = o.name
                              /\ new.config = o.config
                              /\ Len(new.instances) = Len(o.instances)
              /\ Len(o.volumes) > 1 =>
                    /\ objects' = objects
                    /\ ret'.outcome = "returned"
                    /\ ret'.new_objects = << o.id >>]_vars

C17_Witness ==
    /\ ret.op = "split"
    /\ Len(ret.new_objects) = 2
    /\ Len(objects) = 3
    /\ objects[1].name = "bracket"
    /\ Len(objects[1].volumes) = 1
    /\ objects[1].volumes[1].mesh = << <<0, 4>>, <<8, 12>> >>
    /\ Len(objects[1].instances) = 2
    /\ objects[3].volumes[1].mesh = << <<0 - 2, 2>> >>
    /\ objects[3].name = "bracket"
    /\ Len(objects[3].instances) = 2
    /\ ret.new_objects = << objects[2].id, objects[3].id >>

PrintVolumes == { [defined |-> TRUE, min |-> 0, max |-> 8],
                  [defined |-> TRUE, min |-> 0 - 4, max |-> 4] }

\* What the queries named in C18 give for an object.
QueryResults(o) ==
    [bounding_box |-> bounding_box(o).box,
     raw_mesh |-> raw_mesh(o),
     raw_bounding_box |-> raw_bounding_box(o),
     instance_bounding_box |->
        [i \in 1 .. Len(o.instances) |->
            [dont_translate \in BOOLEAN |-> instance_bounding_box(o, i, dont_translate)]],
     facets_count |-> facets_count(o),
     get_instance_min_z |-> [i \in 1 .. Len(o.instances) |-> get_instance_min_z(o, i)],
     print_volume_state |->
        [print_volume \in PrintVolumes |-> check_instances_print_volume_state(o, print_volume)]]

\* Object idx has a volume added that is not a model part, or has such a
\* volume moved or scaled.
AddsOrTransformsModifier(idx) ==
    \/ \E mesh \in Meshes, type \in ModifierTypes : ModelObject_add_volume_of_type(idx, mesh, type)
    \/ \E displacement \in Shifts :
          \E vidx \in Modifiers(objects[idx]) : ModelVolume_translate(idx, vidx, displacement)
    \/ \E versor \in Versors :
          \E vidx \in Modifiers(objects[idx]) : ModelVolume_scale(idx, vidx, versor)

\* Object idx has a volume removed that is not a model part.
RemovesModifier(idx) ==
    \E vidx \in Modifiers(objects[idx]) : ModelObject_delete_volume(idx, vidx)

\* C18: adding, removing, moving or scaling a volume that is not a model
\* part changes none of the results of bounding_box, raw_mesh,
\* raw_bounding_box, instance_bounding_box, facets_count, get_instance_min_z
\* and the print-volume classification.
C18_ModifiersDoNotCount ==
    [][\A idx \in ObjIdx :
          (AddsOrTransformsModifier(idx) \/ RemovesModifier(idx)) =>
             QueryResults(objects'[idx]) = QueryResults(objects[idx])]_vars

\* The same without the removals.
C18_AddedOrTransformed ==
    [][\A idx \in ObjIdx :
          AddsOrTransformsModifier(idx) =>
             QueryResults(objects'[idx]) = QueryResults(objects[idx])]_vars

\* The same for the removals that do not leave exactly one volume.
C18_RemovedAmongSeveral ==
    [][\A idx \in ObjIdx :
          (RemovesModifier(idx) /\ Len(objects[idx].volumes) # 2) =>
             QueryResults(objects'[idx]) = QueryResults(objects[idx])]_vars

IsIdentityAtOrigin(inst) ==
    /\ inst.offset = 0 /\ inst.offset_xy = 0
    /\ inst.rotation_z = 0 /\ inst.rotation_xy = 0
    /\ inst.scaling_factor = 1 /\ inst.mirror = 1

\* One model part whose mesh is centred on the origin of its own frame, and
\* one instance with the identity transformation.
CentredPartUnderIdentity(o) ==
    /\ Len(o.volumes) = 1
    /\ is_model_part(o.volumes[1])
    /\ o.volumes[1].mesh # <<>>
    /\ bbox_center(mesh_bounding_box(o.volumes[1].mesh)) = 0
    /\ Len(o.instances) = 1
    /\ IsIdentityAtOrigin(o.instances[1])

\* C19: for an object of one model part with centred geometry and offset V
\* and one identity instance at the origin, the centre of bounding_box() is V.
C19_CenterIsVolumeOffset ==
    \A idx \in ObjIdx :
       CentredPartUnderIdentity(objects[idx]) =>
          /\ bounding_box(objects[idx]).box.defined
          /\ bbox_center(bounding_box(objects[idx]).box) = objects[idx].volumes[1].offset

C19_Witness ==
    \E idx \in ObjIdx :
       /\ CentredPartUnderIdentity(objects[idx])
       /\ objects[idx].volumes[1].offset = 2
       /\ objects[idx].m_bounding_box_valid
       /\ bbox_center(bounding_box(objects[idx]).box) = 2

(***************************************************************************)
(* C20: the slice index.                                                   *)
(***************************************************************************)
Indexed(po) == po.done[slaposIndexSlices]

\* The height levels at which a slice array has a slice.
LevelsOf(slices) == { quantized(slices[i]) : i \in 1 .. Len(slices) }

\* What a record under the key holds for one slice array: the position of
\* the array's slice at that level, and NONE if the array has none there.
RefersTo(slices, key, idx) ==
    IF key \in LevelsOf(slices)
    THEN /\ idx # NONE
         /\ idx \in 0 .. (Len(slices) - 1)
         /\ quantized(slices[idx + 1]) = key
    ELSE idx = NONE

KeysAscending(index) ==
    \A a, b \in 1 .. Len(index) : a < b => index[a].key < index[b].key

OneRecordPerLevel(index) ==
    \A a, b \in 1 .. Len(index) : a # b => quantized(index[a].key) # quantized(index[b].key)

C21_EmptyPointSetEmptySupports ==
    (ret.op \in {"generate", "slice"} /\ ret.pts = {} /\ ~ret.stopped) =>
       /\ ret.outcome = "returned"
       /\ mesh_facets_count(merged_mesh(ret.tree)) = 0
       /\ ret.op = "slice" => \A k \in 1 .. Len(ret.layers) : ret.layers[k] = {}

\* The empty point set on a mesh of height 4 sliced into layers 1 apart.
C21_Witness ==
    /\ ret.op = "slice"
    /\ ret.pts = {}
    /\ ret.layerh = 1
    /\ Len(ret.layers) >= 3
    /\ mesh_facets_count(merged_mesh(ret.tree)) = 0

(***************************************************************************)
(* C22: reading a model from a file.                                       *)
(***************************************************************************)
IsRead == ret.op \in {"read_from_file", "read_from_archive"}

\* C22: read_from_file and read_from_archive either raise an error (unknown
\* extension, loader failure, no object loaded) or return a model of at least
\* one object, every object with its input_file set and, if default
\* instances were asked for, with at least one instance; the objects returned
\* are the objects loaded, none is made up.
C22_ReadNeverReturnsEmptyModel ==
    IsRead =>
       IF ret.loader = "none" \/ ~ret.result \/ ret.loaded = << >>
       THEN ret.outcome = "runtime_error" /\ objects = << >>
       ELSE /\ ret.outcome = "returned"
            /\ Len(objects) >= 1
            /\ [k \in 1 .. Len(objects) |-> objects[k].id]
                  = [k \in 1 .. Len(ret.loaded) |-> ret.loaded[k].id]
            /\ \A k \in 1 .. Len(objects) :
                  /\ objects[k].input_file # << >>
                  /\ objects[k].input_file \in
                        {ret.input_file,
                         ireplace_last_copy(ret.input_file, << ".", "z", "i", "p", "." >>, << "." >>)}
                  /\ ret.add_default_instances => Len(objects[k].instances) >= 1

\* An archive of two objects without instances read with default instances.
C22_Witness ==
    /\ ret.op = "read_from_archive"
    /\ ret.outcome = "returned"
    /\ ret.add_default_instances
    /\ Len(ret.loaded) = 2
    /\ \A k \in 1 .. 2 : ret.loaded[k].instances = << >> /\ Len(objects[k].instances) = 1
    /\ objects[1].input_file = << "a", ".", "a", "m", "f" >>

(***************************************************************************)
(* C23, C28: the SLA support points gizmo.                                 *)
(***************************************************************************)
\* The ray of the mouse position does not hit the mesh of the object.
MissesMesh(o, mouse_pos) == ~intersect_ray(raw_mesh(o), mouse_pos - o.instances[1].offset)

\* The step is a clicked_on_object or an on_update that asked for the point
\* under a mouse position off the mesh.
UnprojectsOffMesh ==
    \/ /\ ret'.op = "clicked_on_object"
       /\ ret'.unprojected # "none"
       /\ MissesMesh(GizmoObject, ret'.mouse_position)
    \/ /\ ret'.op = "on_update"
       /\ ret'.unprojected # "none"
       /\ MissesMesh(GizmoObject, ret'.mouse_pos)

\* C23: when the requested support point does not hit the mesh, the
\* unprojection fails with an invalid-argument error and clicked_on_object
\* and on_update leave the grabbers and the object's sla_support_points as
\* they were and schedule no background processing.
C23_MissedPointRejected ==
    [][UnprojectsOffMesh =>
          /\ ret'.unprojected = "invalid_argument"
          /\ sla_gizmo'.m_grabbers = sla_gizmo.m_grabbers
          /\ objects' = objects
          /\ ~ret'.posted]_vars

\* A click off the mesh and a drag off the mesh of an object that has a
\* support point.
C23_Witness ==
    /\ ret.op = "clicked_on_object"
    /\ ret.unprojected = "invalid_argument"
    /\ MissesMesh(GizmoObject, ret.mouse_position)
    /\ Len(GizmoObject.sla_support_points) = 1
    /\ Len(sla_gizmo.m_grabbers) = 1
    /\ Len(sla_gizmo.m_V) > 0

C23_WitnessDrag ==
    /\ ret.op = "on_update"
    /\ ret.unprojected = "invalid_argument"
    /\ sla_gizmo.m_hover_id = 0
    /\ Len(sla_gizmo.m_grabbers) = 1

GrabbersAtSupportPoints ==
    /\ Len(sla_gizmo.m_grabbers) = Len(GizmoObject.sla_support_points)
    /\ \A i \in 1 .. Len(sla_gizmo.m_grabbers) :
          sla_gizmo.m_grabbers[i] = GizmoObject.sla_support_points[i]

HoverIdValid ==
    \/ sla_gizmo.m_hover_id = 0 - 1
    \/ sla_gizmo.m_hover_id \in 0 .. (Len(sla_gizmo.m_grabbers) - 1)

IndexedPastTheEnd == ret.op # "none" /\ ret.outcome \in {"crashed", "out_of_bounds"}

\* C28: after any sequence of set_hover_id, clicked_on_object, on_update,
\* delete_current_grabber and update_mesh the grabbers and the object's
\* sla_support_points have the same length and the same positions, m_hover_id
\* is -1 or a valid index into both, and no call has indexed past the end.
C28_HoverIdWithinGrabbers ==
    sla_gizmo.m_state = "On" =>
       /\ GrabbersAtSupportPoints
       /\ HoverIdValid
       /\ ~IndexedPastTheEnd

\* The part about the two lists alone.
C28_ListsInStep == sla_gizmo.m_state = "On" => GrabbersAtSupportPoints

\* The hover ID only.
C28_HoverIdValid == sla_gizmo.m_state = "On" => HoverIdValid

\* No call indexes past the end.
C28_NeverPastTheEnd == ~IndexedPastTheEnd

(***************************************************************************)
(* C24: back-references followed by cut.                                   *)
(***************************************************************************)
\* The last call was a cut that set the material of a volume of a half: the
\* volume's object is the half, whose model pointer cut has set to null
\* before, and set_material calls add_material through that pointer.
CutFollowedNullModel ==
    /\ ret.op = "cut"
    /\ ret.args.keep_upper \/ ret.args.keep_lower
    /\ cut(ret.before, ret.args.instance, ret.args.z, ret.args.keep_upper,
           ret.args.keep_lower, ret.args.rotate_lower).no_model

\* C24: no back-reference followed while a mutating operation runs is null;
\* here for cut, whose volumes set their material through their object's
\* model.
C24_NoNullBackReferenceFollowed == ~CutFollowedNullModel

\* The same for the sources whose volumes have no material.
C24_WithoutMaterials ==
    (ret.op = "cut" /\ \A k \in 1 .. Len(ret.before.volumes) : ret.before.volumes[k].material_id = "")
       => ~CutFollowedNullModel

(***************************************************************************)
(* C25: cancellation of a long-running step, and termination of process(). *)
(***************************************************************************)
\* Object i runs the support tree generation and the stop condition is true.
SupportStepStopped(i) ==
    /\ i <= Len(m_objects)
    /\ m_objects[i].rstep = slaposSupportTree
    /\ stop

\* process() has returned, and not as completed.
ReturnedUncompleted == bgPc = "idle" /\ outcome \in {"cancelled", "failed"}

\* With the stop condition true, the running support tree generation of
\* object i works no further phase, and when it ends it ends uncommitted and
\* the walk is aborted: as cancelled, unless a step has failed with an error
\* of its own.
StoppedStepEndsCancelled(i) ==
    SupportStepStopped(i) =>
        /\ i <= Len(m_objects')
        /\ m_objects'[i].rphase <= m_objects[i].rphase
        /\ ~m_objects'[i].done[slaposSupportTree]
        /\ m_objects'[i].rstep # slaposSupportTree =>
              /\ m_objects'[i].rstep = NotRunning
              /\ outcome' \in {"cancelled", "failed"}

ModelPartBoxes(o, inst) ==
    { transform_bounding_box(inst, volume_bounding_box(o.volumes[k]), FALSE) :
         k \in { j \in 1 .. Len(o.volumes) : is_model_part(o.volumes[j]) } }

\* The state the instance is to be given.
StateOfBoxes(boxes, print_volume) ==
    IF boxes # {} /\ \A b \in boxes : bbox_contains(print_volume, b)
       THEN "PVS_Inside"
    ELSE IF \A b \in boxes : ~bbox_contains(print_volume, b) /\ ~bbox_intersects(print_volume, b)
       THEN "PVS_Fully_Outside"
    ELSE "PVS_Partly_Outside"

PrintVolumeChecked == ret.op = "check_instances_print_volume_state"

\* C26: check_instances_print_volume_state gives every instance a state:
\* inside iff there is a model part and every model part's box is contained
\* in the print volume, fully outside iff no model part's box is contained
\* in or intersects it, partly outside otherwise; and it returns the number
\* of instances found inside.
C26_InstancesClassified ==
    PrintVolumeChecked =>
        LET o == objects[ret.idx]
            inside == { i \in 1 .. Len(o.instances) : ret.print_volume_state[i] = "PVS_Inside" }
        IN  /\ Len(ret.print_volume_state) = Len(o.instances)
            /\ \A i \in 1 .. Len(o.instances) :
                  ret.print_volume_state[i] =
                     StateOfBoxes(ModelPartBoxes(o, o.instances[i]), ret.print_volume)
            /\ ret.res = Cardinality(inside)

\* An object of a model part, a modifier and two instances was checked: one
\* instance was found inside and one partly outside.
C26_Witness ==
    /\ PrintVolumeChecked
    /\ ModelPartsOf(objects[ret.idx]) # << >>
    /\ Modifiers(objects[ret.idx]) # {}
    /\ ret.print_volume_state = << "PVS_Inside", "PVS_Partly_Outside" >>
    /\ ret.res = 1

\* One instance was found inside and one fully outside.
C26_WitnessFullyOutside ==
    /\ PrintVolumeChecked
    /\ ret.print_volume_state = << "PVS_Fully_Outside", "PVS_Inside" >>
    /\ ret.res = 1

\* An object without model parts and with an instance was checked.
C26_WitnessNoModelPart ==
    /\ PrintVolumeChecked
    /\ ModelPartsOf(objects[ret.idx]) = << >>
    /\ objects[ret.idx].instances # << >>
    /\ ret.res = 0

(***************************************************************************)
(* C27: the height of the cut plane.                                       *)
(***************************************************************************)
CutZClamped == 0 <= cut_gizmo.m_cut_z /\ cut_gizmo.m_cut_z <= cut_gizmo.m_max_z

WithinHeight(z) == 0 <= z /\ z <= cut_gizmo.selection_size_z

\* C27: while the cut gizmo is on, the height of the plane lies between 0
\* and the Z size of the bounding box of the selection, and so does every
\* height perform_cut hands to cut.
C27_CutZWithinHeightRange ==
    cut_gizmo.m_state = "On" =>
        /\ WithinHeight(cut_gizmo.m_cut_z)
        /\ ret.op = "perform_cut" => WithinHeight(ret.z)

\* While the cut gizmo is on, m_max_z is the Z size of the bounding box of
\* the selection and the plane lies between 0 and m_max_z.
C27_CutZWithinMaxZ ==
    cut_gizmo.m_state = "On" =>
        (CutZClamped /\ cut_gizmo.m_max_z = cut_gizmo.selection_size_z)

\* The height handed to cut lies within the height of the selection.
C27_PerformCutWithinHeight == ret.op = "perform_cut" => WithinHeight(ret.z)

\* After set_cut_z and update_max_z (a drag, its start, a render) the plane
\* is clamped.
C27_ClampedAfterSetCutZ ==
    (ret.op \in {"on_update", "on_render"}
        \/ (ret.op = "on_start_dragging" /\ cut_gizmo.m_hover_id # 0 - 1)) => CutZClamped

\* After a render the plane lies within the height of the selection.
C27_ClampedAfterRender ==
    ret.op = "on_render" =>
        (CutZClamped /\ cut_gizmo.m_max_z = cut_gizmo.selection_size_z)

\* After the activation the plane lies within the height of the selection.
C27_ActivatedWithinHeight ==
    ret.op = "on_set_state" /\ cut_gizmo.m_state = "On" => WithinHeight(cut_gizmo.m_cut_z)

\* After the activation the plane lies within m_max_z.
C27_ActivatedClamped ==
    ret.op = "on_set_state" /\ cut_gizmo.m_state = "On" => CutZClamped

\* After the input window was drawn the plane is clamped.
C27_ClampedAfterInput ==
    ret.op \in {"on_render_input_window", "perform_cut"} => CutZClamped

(***************************************************************************)
(* C29: the auto-extruder counter.                                         *)
(***************************************************************************)
GotExtruderId == ret.op = "get_auto_extruder_id"

\* The k-th ID of the round over 1 .. n.
RoundRobin(k, n) == ((k - 1) % n) + 1

\* The last call was one of a run of calls, all with n, since a reset (or
\* since the start of the program).
ConstantRun(n) == GotExtruderId /\ ret.run.max_extruders = n

\* The ID returned and the counter stored lie between 1 and the
\* max_extruders of the call.
WithinExtruders ==
    /\ 1 <= ret.res /\ ret.res <= ret.max_extruders
    /\ 1 <= s_auto_extruder_id /\ s_auto_extruder_id <= ret.max_extruders

\* C29: from a reset on, the calls with one and the same n >= 1 return
\* 1, 2, ..., n, 1, 2, ...; and after every call with max_extruders >= 1 the
\* ID returned and the counter lie between 1 and max_extruders.
C29_RoundRobinWithinExtruders ==
    /\ \A n \in 1 .. UINT_MAX : ConstantRun(n) => ret.res = RoundRobin(ret.run.calls, n)
    /\ (GotExtruderId /\ ret.max_extruders >= 1) => WithinExtruders

\* The same for max_extruders below the largest unsigned int, as long as the
\* counter had not wrapped to 0 before the call (a call that finds it at 0
\* returns 0).
C29_RoundRobinBelowUIntMax ==
    /\ \A n \in 1 .. UINT_MAX - 1 : ConstantRun(n) => ret.res = RoundRobin(ret.run.calls, n)
    /\ (GotExtruderId /\ ret.max_extruders >= 1 /\ ret.max_extruders < UINT_MAX /\ ret.res # 0)
          => WithinExtruders

\* A second round has begun in a run of calls with three extruders.
C29_WitnessSecondRound == ConstantRun(3) /\ ret.run.calls = 5 /\ ret.res = 2

(***************************************************************************)
(* C30: model_volume_list_changed.                                         *)
(***************************************************************************)
VolumeListCompared == ret.op = "model_volume_list_changed"

\* The volumes of the type, in the order of the list.
VolumesOfType(o, type) == SelectSeq(o.volumes, LAMBDA v : v.type = type)

\* Two lists of the same length, with the same IDs and transformations.
SameIdsAndTransforms(a, b) ==
    /\ Len(a) = Len(b)
    /\ \A k \in 1 .. Len(a) :
          /\ a[k].id = b[k].id
          /\ a[k].offset = b[k].offset
          /\ a[k].scaling_factor = b[k].scaling_factor
          /\ a[k].mirror = b[k].mirror

\* C30: model_volume_list_changed returns false iff the volumes of the type
\* in the old object and those in the new one are as many, with pairwise
\* equal IDs and transformations; the volumes of another type have no part
\* in it: the result is that for the two lists without them.
C30_ChangedIffTypedSubsequencesDiffer ==
    VolumeListCompared =>
        LET typed_old == VolumesOfType(objects[1], ret.type)
            typed_new == VolumesOfType(objects[2], ret.type)
        IN  /\ ret.res = ~SameIdsAndTransforms(typed_old, typed_new)
            /\ ret.res = model_volume_list_changed([objects[1] EXCEPT !.volumes = typed_old],
                                                   [objects[2] EXCEPT !.volumes = typed_new],
                                                   ret.type)

\* Unchanged was returned for two lists that hold a volume of the type each
\* and volumes of another type at different places.
C30_Witness ==
    /\ VolumeListCompared
    /\ ~ret.res
    /\ VolumesOfType(objects[1], ret.type) # << >>
    /\ Len(objects[1].volumes) = 2
    /\ Len(objects[2].volumes) = 2
    /\ objects[1].volumes[1].type # ret.type
    /\ objects[2].volumes[2].type # ret.type

\* Changed was returned because a volume of the type was added at the end.
C30_WitnessAdded ==
    /\ VolumeListCompared
    /\ ret.res
    /\ Len(objects[2].volumes) = Len(objects[1].volumes) + 1
    /\ SubSeq(objects[2].volumes, 1, Len(objects[1].volumes)) = objects[1].volumes
    /\ objects[1].volumes # << >>

=============================================================================
